---- MODULE Spec2Model ----
(***************************************************************************)
(* The DQAD payer-claims pipeline of src/glue/dqad_etl_job.py: rule        *)
(* validation, per-CPT z-score outlier detection, the three tier outputs   *)
(* and the batch metrics.                                                  *)
(*                                                                         *)
(* A DataFrame is a sequence of rows, a row a record of columns.  A        *)
(* nullable column holds <<>> (SQL NULL) or <<v>>; a Spark boolean         *)
(* expression evaluates to <<TRUE>>, <<FALSE>> or NULL and a when() branch *)
(* is taken only on <<TRUE>>.  Dates are day numbers, a string that a      *)
(* regular expression inspects is a tuple of characters, dq_issues is the  *)
(* sequence of the "CODE;" pieces concat() has appended.  Amounts are      *)
(* whole dollars; group statistics are kept as exact integers (count, sum  *)
(* and sum of squares of the offsets from the group's first amount, long   *)
(* numbers held in limbs), so the z-score test is decided in exact         *)
(* arithmetic.  The two percentages of the metrics are IEEE-754 doubles,   *)
(* computed bit by bit.                                                    *)
(***************************************************************************)
EXTENDS Integers, Sequences, FiniteSets, TLC

\* ------------------------------------------------------------------------
\* SQL values
\* ------------------------------------------------------------------------

NULL == <<>>
Some(v) == <<v>>
IsNullValue(x) == x = NULL
Val(x) == x[1]

SQL_TRUE == <<TRUE>>
SQL_FALSE == <<FALSE>>
IsTrue(b) == b = SQL_TRUE

\* Column.isNull(): never NULL itself.
isNull(x) == Some(IsNullValue(x))

\* ~ : NOT NULL is NULL.
Not3(b) == IF IsNullValue(b) THEN NULL ELSE Some(~Val(b))

\* | and & : Kleene logic.
Or3(a, b) ==
    IF IsTrue(a) \/ IsTrue(b) THEN SQL_TRUE
    ELSE IF IsNullValue(a) \/ IsNullValue(b) THEN NULL
    ELSE SQL_FALSE

And3(a, b) ==
    IF a = SQL_FALSE \/ b = SQL_FALSE THEN SQL_FALSE
    ELSE IF IsNullValue(a) \/ IsNullValue(b) THEN NULL
    ELSE SQL_TRUE

\* Comparisons: NULL when either side is NULL.
Eq3(a, b) == IF IsNullValue(a) \/ IsNullValue(b) THEN NULL ELSE Some(Val(a) = Val(b))
Lt3(a, b) == IF IsNullValue(a) \/ IsNullValue(b) THEN NULL ELSE Some(Val(a) < Val(b))
Gt3(a, b) == IF IsNullValue(a) \/ IsNullValue(b) THEN NULL ELSE Some(Val(a) > Val(b))

\* Column.isin(list): NULL for a NULL value (the lists hold no NULL).
isin(x, list) == IF IsNullValue(x) THEN NULL ELSE Some(Val(x) \in list)

\* length(col) of a string column.
length(x) == IF IsNullValue(x) THEN NULL ELSE Some(Len(Val(x)))

\* datediff(end, start): days from start to end.
datediff(end, start) ==
    IF IsNullValue(end) \/ IsNullValue(start) THEN NULL ELSE Some(Val(end) - Val(start))

\* A variant that looks at the first branch only.
CaseWhenFirstBranchOnly(branches, default) ==
    IF branches # <<>> /\ IsTrue(Head(branches)[1]) THEN Head(branches)[2] ELSE default

\* when(c1, v1).when(c2, v2)...otherwise(d): the value of the first branch
\* whose condition is TRUE.
RECURSIVE CaseWhen(_, _)
CaseWhen(branches, default) ==
    IF branches = <<>> THEN default
    ELSE IF IsTrue(Head(branches)[1]) THEN Head(branches)[2]
    ELSE CaseWhen(Tail(branches), default)

\* concat(col("dq_issues"), lit(code)).
concat(issues, code) == Append(issues, code)

\* ------------------------------------------------------------------------
\* Regular expressions of the validator
\* ------------------------------------------------------------------------

Digits == {"0", "1", "2", "3", "4", "5", "6", "7", "8", "9"}
LineEnd == "\n"

AllDigits(s) == \A i \in 1..Len(s) : s[i] \in Digits

\* java.util.regex: $ also matches just before a final line terminator.
DropFinalLineEnd(s) ==
    IF Len(s) > 0 /\ s[Len(s)] = LineEnd THEN SubSeq(s, 1, Len(s) - 1) ELSE s

\* rlike("^[0-9]{10}$")
MatchesNpi(s) ==
    \E t \in {s, DropFinalLineEnd(s)} : Len(t) = 10 /\ AllDigits(t)

rlike_npi(x) == IF IsNullValue(x) THEN NULL ELSE Some(MatchesNpi(Val(x)))

\* rlike("^[0-9]{5}(-[0-9]{4})?$")
MatchesZip(s) ==
    \E t \in {s, DropFinalLineEnd(s)} :
        \/ Len(t) = 5 /\ AllDigits(t)
        \/ /\ Len(t) = 10
           /\ AllDigits(SubSeq(t, 1, 5))
           /\ t[6] = "-"
           /\ AllDigits(SubSeq(t, 7, 10))

rlike_zip(x) == IF IsNullValue(x) THEN NULL ELSE Some(MatchesZip(Val(x)))

\* ------------------------------------------------------------------------
\* Data quality validation (validate_data_quality)
\* ------------------------------------------------------------------------

min_claim_amount == 0
max_claim_amount == 100000
npi_length == 10
max_days_to_submission == 365

\* datetime.now().date(), read once when the plan is built.
current_date == 1000

\* The DQ_THRESHOLDS dict of the script the job runs: for each key the number
\* a comparison with a numeric column reads, NULL for text that is no number
\* (the cast Spark applies to a string literal gives NULL).
VARIABLE DQ_THRESHOLDS

\* The keys the rules look up.
ThresholdKeys ==
    {"min_claim_amount", "max_claim_amount", "npi_length", "max_days_to_submission"}

\* The dict as the repository has it.
DeployedThresholds ==
    [min_claim_amount |-> Some(min_claim_amount),
     max_claim_amount |-> Some(max_claim_amount),
     npi_length |-> Some(npi_length),
     max_days_to_submission |-> Some(max_days_to_submission)]

valid_statuses == {"PAID", "DENIED", "PENDING"}
valid_genders == {"M", "F", "U"}

\* The condition of each rule, as the job writes it.
missing_member_id(r) == isNull(r.member_id)
missing_npi(r) == isNull(r.provider_npi)
missing_cpt(r) == isNull(r.cpt_code)
missing_diagnosis(r) == Or3(isNull(r.icd10_code), Eq3(r.icd10_code, Some("")))
missing_amount(r) == isNull(r.claim_amount)

\* The npi_valid column.
npi_valid(r) ==
    And3(Eq3(length(r.provider_npi), DQ_THRESHOLDS.npi_length), rlike_npi(r.provider_npi))

invalid_npi(r) == Not3(npi_valid(r))
\* A variant with <= in place of <.
negative_amount_or_zero(r) ==
    IF IsNullValue(r.claim_amount) \/ IsNullValue(DQ_THRESHOLDS.min_claim_amount) THEN NULL
    ELSE Some(Val(r.claim_amount) <= Val(DQ_THRESHOLDS.min_claim_amount))

negative_amount(r) == Lt3(r.claim_amount, DQ_THRESHOLDS.min_claim_amount)
excessive_amount(r) == Gt3(r.claim_amount, DQ_THRESHOLDS.max_claim_amount)
future_service_date(r) == Gt3(r.service_date, Some(current_date))
late_submission(r) ==
    Gt3(datediff(r.submission_date, r.service_date), DQ_THRESHOLDS.max_days_to_submission)
submission_before_service(r) == Lt3(r.submission_date, r.service_date)
invalid_status(r) == Not3(isin(r.claim_status, valid_statuses))
invalid_gender(r) == Not3(isin(r.patient_gender, valid_genders))
invalid_zip(r) == Not3(rlike_zip(r.patient_zip))

\* 1. Null/Missing value checks: one when-chain.
check_missing(r, issues) ==
    CaseWhen(<< <<missing_member_id(r), concat(issues, "MISSING_MEMBER_ID;")>>,
                <<missing_npi(r), concat(issues, "MISSING_NPI;")>>,
                <<missing_cpt(r), concat(issues, "MISSING_CPT;")>>,
                <<missing_diagnosis(r), concat(issues, "MISSING_DIAGNOSIS;")>>,
                <<missing_amount(r), concat(issues, "MISSING_AMOUNT;")>> >>,
             issues)

\* 2. Invalid NPI format.
check_npi(r, issues) ==
    CaseWhen(<< <<invalid_npi(r), concat(issues, "INVALID_NPI;")>> >>, issues)

\* 3. Claim amount validations: one when-chain.
check_amount(r, issues) ==
    CaseWhen(<< <<negative_amount(r), concat(issues, "NEGATIVE_AMOUNT;")>>,
                <<excessive_amount(r), concat(issues, "EXCESSIVE_AMOUNT;")>> >>,
             issues)

\* 4. Date validations: one when-chain.
check_dates(r, issues) ==
    CaseWhen(<< <<future_service_date(r), concat(issues, "FUTURE_SERVICE_DATE;")>>,
                <<late_submission(r), concat(issues, "LATE_SUBMISSION;")>>,
                <<submission_before_service(r),
                  concat(issues, "SUBMISSION_BEFORE_SERVICE;")>> >>,
             issues)

\* 5. Invalid status.
check_status(r, issues) ==
    CaseWhen(<< <<invalid_status(r), concat(issues, "INVALID_STATUS;")>> >>, issues)

\* 6. Gender validation.
check_gender(r, issues) ==
    CaseWhen(<< <<invalid_gender(r), concat(issues, "INVALID_GENDER;")>> >>, issues)

\* 7. ZIP code validation.
check_zip(r, issues) ==
    CaseWhen(<< <<invalid_zip(r), concat(issues, "INVALID_ZIP;")>> >>, issues)

\* The rules in the order the job applies them: code and condition.
RuleCatalogue(r) ==
    << <<"MISSING_MEMBER_ID;", missing_member_id(r)>>,
       <<"MISSING_NPI;", missing_npi(r)>>,
       <<"MISSING_CPT;", missing_cpt(r)>>,
       <<"MISSING_DIAGNOSIS;", missing_diagnosis(r)>>,
       <<"MISSING_AMOUNT;", missing_amount(r)>>,
       <<"INVALID_NPI;", invalid_npi(r)>>,
       <<"NEGATIVE_AMOUNT;", negative_amount(r)>>,
       <<"EXCESSIVE_AMOUNT;", excessive_amount(r)>>,
       <<"FUTURE_SERVICE_DATE;", future_service_date(r)>>,
       <<"LATE_SUBMISSION;", late_submission(r)>>,
       <<"SUBMISSION_BEFORE_SERVICE;", submission_before_service(r)>>,
       <<"INVALID_STATUS;", invalid_status(r)>>,
       <<"INVALID_GENDER;", invalid_gender(r)>>,
       <<"INVALID_ZIP;", invalid_zip(r)>> >>

\* A variant that runs the date checks before the amount checks.
dq_issues_dates_first(r) ==
    check_zip(r,
      check_gender(r,
        check_status(r,
          check_amount(r,
            check_dates(r,
              check_npi(r,
                check_missing(r, <<>>)))))))

\* The dq_issues column of one row after the seven withColumn steps.
dq_issues_of(r) ==
    check_zip(r,
      check_gender(r,
        check_status(r,
          check_dates(r,
            check_amount(r,
              check_npi(r,
                check_missing(r, <<>>)))))))

\* A variant that lets a record with a single issue pass as clean.
has_dq_issues_above_one(issues) == Gt3(Some(Len(issues)), Some(1))

\* has_dq_issues = length(dq_issues) > 0
has_dq_issues(issues) == Gt3(Some(Len(issues)), Some(0))

\* A variant in which a row starts from the issues of the row before it.
dq_df_running(df) ==
    [i \in 1..Len(df) |->
        LET issues == (IF i > 1 THEN dq_issues_of(df[i - 1]) ELSE <<>>)
                      \o dq_issues_of(df[i])
        IN  [row |-> df[i], dq_issues |-> issues, has_dq_issues |-> has_dq_issues(issues)]]

\* dq_df: every row with its dq_issues and has_dq_issues columns.
dq_df_of(df) ==
    [i \in 1..Len(df) |->
        [row |-> df[i],
         dq_issues |-> dq_issues_of(df[i]),
         has_dq_issues |-> has_dq_issues(dq_issues_of(df[i]))]]

\* DataFrame.filter on rows and their condition column: the rows whose
\* condition is TRUE (a NULL condition drops the row), in their order.
Filter(rows, conds) ==
    LET kept == SelectSeq([i \in 1..Len(rows) |-> i], LAMBDA i : IsTrue(conds[i]))
    IN  [j \in 1..Len(kept) |-> rows[kept[j]]]

\* A variant that hands every row on as clean.
validate_clean_all(df) == [i \in 1..Len(df) |-> df[i]]

\* clean_df: the rows without issues, helper columns dropped.
validate_clean(df) ==
    LET dq == dq_df_of(df)
    IN  Filter([i \in 1..Len(df) |-> df[i]],
               [i \in 1..Len(df) |-> Not3(dq[i].has_dq_issues)])

\* dq_failures_df: the rows with issues, dq_issues kept.
validate_failures(df) ==
    LET dq == dq_df_of(df)
    IN  Filter([i \in 1..Len(df) |-> [row |-> df[i], dq_issues |-> dq[i].dq_issues]],
               [i \in 1..Len(df) |-> dq[i].has_dq_issues])

\* ------------------------------------------------------------------------
\* Exact arithmetic on long numbers
\* ------------------------------------------------------------------------
\* A number is a sequence of 1 + FracLimbs limbs of LimbBits bits each, most
\* significant first.  The metrics read it as one limb of integer part and
\* FracLimbs limbs of fraction, and a double is such a number with at most
\* DoublePrecision significant bits; the statistics read it as a natural
\* number counted in units of the last limb.

LimbBits == 15
FracLimbs == 5
DoublePrecision == 53

LimbBase == 2 ^ LimbBits
NumLimbs == 1 + FracLimbs

FixZero == [i \in 1..NumLimbs |-> 0]

RECURSIVE FracDigits(_, _, _)
\* The first k limbs of the fraction r / b, for 0 <= r < b.
FracDigits(r, b, k) ==
    IF k = 0 THEN <<>>
    ELSE <<(r * LimbBase) \div b>> \o FracDigits((r * LimbBase) % b, b, k - 1)

RECURSIVE FracRem(_, _, _)
\* What is left of r / b after k limbs.
FracRem(r, b, k) == IF k = 0 THEN r ELSE FracRem((r * LimbBase) % b, b, k - 1)

\* a / b cut to FracLimbs limbs of fraction, and whether anything was cut off.
FixQuot(a, b) ==
    [limbs |-> <<a \div b>> \o FracDigits(a % b, b, FracLimbs),
     sticky |-> FracRem(a % b, b, FracLimbs) # 0]

RECURSIVE CarryOut(_, _)
\* What limbs i and below carry into limb i - 1.
CarryOut(limbs, i) ==
    IF i > NumLimbs THEN 0 ELSE (limbs[i] + CarryOut(limbs, i + 1)) \div LimbBase

\* The limbs brought back below LimbBase, the carries taken upwards.
Carry(limbs) ==
    SubSeq([i \in 1..NumLimbs |->
               IF i = 1 THEN limbs[1] + CarryOut(limbs, 2)
               ELSE (limbs[i] + CarryOut(limbs, i + 1)) % LimbBase],
           1, NumLimbs)

\* x + y, exact.
FixAdd(x, y) == Carry([i \in 1..NumLimbs |-> x[i] + y[i]])

\* m * x for a natural m, exact.
FixMulNat(x, m) == Carry([i \in 1..NumLimbs |-> x[i] * m])

\* x <= y
FixLeq(x, y) ==
    \/ x = y
    \/ \E i \in 1..NumLimbs : x[i] < y[i] /\ \A j \in 1..(i - 1) : x[j] = y[j]

\* x - y for x >= y, exact.
FixSub(x, y) == Carry([i \in 1..NumLimbs |-> x[i] - y[i]])

\* The natural n in units of the last limb.
BigNat(n) == Carry([i \in 1..NumLimbs |-> IF i = NumLimbs THEN n ELSE 0])

RECURSIVE BigMul(_, _)
\* m * x for a natural m of any size, exact.
BigMul(x, m) ==
    IF m < 128 THEN FixMulNat(x, m)
    ELSE FixAdd(FixMulNat(BigMul(x, m \div 128), 128), FixMulNat(x, m % 128))

\* n * n
BigSquare(n) == BigMul(BigNat(IF n < 0 THEN -n ELSE n), IF n < 0 THEN -n ELSE n)

RECURSIVE SumRange(_, _, _)
\* s[lo] + ... + s[hi]
SumRange(s, lo, hi) ==
    IF lo > hi THEN 0
    ELSE IF lo = hi THEN s[lo]
    ELSE SumRange(s, lo, (lo + hi) \div 2) + SumRange(s, (lo + hi) \div 2 + 1, hi)

SumSeq(s) == SumRange(s, 1, Len(s))

\* The sum of the long numbers xs, exact: limb by limb, then the carries.
BigSum(xs) ==
    LET terms == SubSeq(xs, 1, Len(xs))
    IN  Carry([i \in 1..NumLimbs |-> SumSeq([j \in 1..Len(terms) |-> terms[j][i]])])

\* ------------------------------------------------------------------------
\* Statistical anomaly detection (detect_statistical_anomalies)
\* ------------------------------------------------------------------------

\* The rows of df whose cpt_code is the grouping key c (groupBy puts the
\* rows with a NULL key in one group of their own).
SelectRows(df, c) == SelectSeq(df, LAMBDA r : r.cpt_code = c)

\* The non-NULL claim_amount values of the rows: avg and stddev skip NULLs.
Amounts(rows) ==
    LET billed == SelectSeq(rows, LAMBDA r : ~IsNullValue(r.claim_amount))
    IN  SubSeq([i \in 1..Len(billed) |-> Val(billed[i].claim_amount)], 1, Len(billed))

\* One row of stats_df.  avg_amount = origin + s / n and
\* stddev_amount = sqrt((n*q - s*s) / (n*(n-1))) (stddev is stddev_samp),
\* with s and q the sum and the sum of squares of the amounts' offsets from
\* origin; avg_amount is NULL for n = 0, stddev_amount is NULL for n <= 1.
group_stats(df, c) ==
    LET rows == SelectRows(df, c)
        xs == Amounts(rows)
        origin == IF xs = <<>> THEN 0 ELSE xs[1]
    IN  [cpt_code |-> c,
         count |-> Len(rows),
         n |-> Len(xs),
         origin |-> origin,
         s |-> SumSeq([i \in 1..Len(xs) |-> xs[i] - origin]),
         q |-> BigSum([i \in 1..Len(xs) |-> BigSquare(xs[i] - origin)])]

\* stats_df = df.groupBy("cpt_code").agg(avg, stddev, count)
stats_df_of(df) ==
    {group_stats(df, c) : c \in {df[i].cpt_code : i \in 1..Len(df)}}

\* n * (n - 1) * variance of a stats row.
VarNum(st) == FixSub(BigMul(st.q, st.n), BigSquare(st.s))

\* A variant with >= in place of >.
stddev_not_negative(st) ==
    IF st.n <= 1 THEN NULL ELSE Some(FixLeq(FixZero, VarNum(st)))

\* col("stddev_amount") > 0
stddev_positive(st) ==
    IF st.n <= 1 THEN NULL ELSE Some(VarNum(st) # FixZero)

\* (claim_amount - avg_amount) / stddev_amount as sign and square:
\* z = sign * sqrt(num / den).
z_ratio(x, st) ==
    LET d == st.n * (x - st.origin) - st.s
    IN  [sign |-> IF d > 0 THEN 1 ELSE IF d < 0 THEN -1 ELSE 0,
         num |-> BigMul(BigSquare(d), st.n - 1),
         den |-> BigMul(VarNum(st), st.n)]

z_zero == [sign |-> 0, num |-> FixZero, den |-> BigNat(1)]

\* The z_score column: when(stddev_amount > 0, ...).otherwise(lit(0)).
z_score(r, st) ==
    IF IsTrue(stddev_positive(st))
    THEN (IF IsNullValue(r.claim_amount) THEN NULL
          ELSE Some(z_ratio(Val(r.claim_amount), st)))
    ELSE Some(z_zero)

\* A variant with >= in place of >.
is_statistical_outlier_at_three(z) ==
    IF IsNullValue(z) THEN NULL ELSE Some(FixLeq(FixMulNat(Val(z).den, 9), Val(z).num))

\* A variant with a threshold of ten deviations in place of three.
is_statistical_outlier_beyond_ten(z) ==
    IF IsNullValue(z) THEN NULL
    ELSE Some(~FixLeq(Val(z).num, FixMulNat(Val(z).den, 100)))

\* abs(col("z_score")) > 3
is_statistical_outlier(z) ==
    IF IsNullValue(z) THEN NULL ELSE Some(~FixLeq(Val(z).num, FixMulNat(Val(z).den, 9)))

\* The stats columns the left join on cpt_code gives a row: the stats row
\* of its group, or all NULL (n = 0) when the key is NULL and matches
\* nothing.
joined_stats(stats_df, r) ==
    IF IsNullValue(r.cpt_code)
    THEN [cpt_code |-> NULL, count |-> 0, n |-> 0, origin |-> 0, s |-> 0, q |-> FixZero]
    ELSE CHOOSE st \in stats_df : st.cpt_code = r.cpt_code

\* A variant that scores each row against the aggregate of the rows read so
\* far.
detect_against_running_stats(df) ==
    SubSeq([i \in 1..Len(df) |->
               LET st == joined_stats(stats_df_of(SubSeq(df, 1, i)), df[i])
                   z == z_score(df[i], st)
               IN  [row |-> df[i], stats |-> st, z_score |-> z,
                    is_statistical_outlier |-> is_statistical_outlier(z)]],
           1, Len(df))

\* A variant that scores each row against the aggregate of the other rows.
detect_leaving_the_claim_out(df) ==
    SubSeq([i \in 1..Len(df) |->
               LET others == SubSeq(df, 1, i - 1) \o SubSeq(df, i + 1, Len(df))
                   st == IF \E j \in 1..Len(others) : others[j].cpt_code = df[i].cpt_code
                         THEN joined_stats(stats_df_of(others), df[i])
                         ELSE joined_stats({}, [df[i] EXCEPT !.cpt_code = NULL])
                   z == z_score(df[i], st)
               IN  [row |-> df[i], stats |-> st, z_score |-> z,
                    is_statistical_outlier |-> is_statistical_outlier(z)]],
           1, Len(df))

\* df_with_stats: every row with its stats, z_score and outlier flag.
detect_statistical_anomalies(df) ==
    LET stats_df == stats_df_of(df)
    IN  SubSeq([i \in 1..Len(df) |->
                   LET st == joined_stats(stats_df, df[i])
                       z == z_score(df[i], st)
                   IN  [row |-> df[i], stats |-> st, z_score |-> z,
                        is_statistical_outlier |-> is_statistical_outlier(z)]],
               1, Len(df))

\* ------------------------------------------------------------------------
\* Outputs
\* ------------------------------------------------------------------------

\* statistical_outliers = claims_with_outliers.filter(is_statistical_outlier)
outliers_of(cwo) ==
    Filter(cwo, [i \in 1..Len(cwo) |-> cwo[i].is_statistical_outlier])

\* A variant that forgets the outlier filter.
gold_of_unfiltered(cwo) == [i \in 1..Len(cwo) |-> cwo[i].row]

\* gold_claims = claims_with_outliers.filter(~is_statistical_outlier), the
\* stats columns dropped.
gold_of(cwo) ==
    Filter([i \in 1..Len(cwo) |-> cwo[i].row],
           [i \in 1..Len(cwo) |-> Not3(cwo[i].is_statistical_outlier)])

\* silver_claims = dq_failures.select(..., dq_issues, ...)
silver_of(failures) == failures

\* quarantine_claims = statistical_outliers.select(..., z_score, avg_amount,
\* stddev_amount, anomaly_type, ...)
quarantine_of(outliers) ==
    [i \in 1..Len(outliers) |->
        [row |-> outliers[i].row, z_score |-> outliers[i].z_score,
         stats |-> outliers[i].stats, anomaly_type |-> "STATISTICAL_OUTLIER"]]

\* ------------------------------------------------------------------------
\* Python float arithmetic of calculate_dq_metrics
\* ------------------------------------------------------------------------

\* The number of bits of a limb value.
BitLength(v) == Cardinality({k \in 0..(LimbBits - 1) : 2 ^ k <= v})

\* The number of bits up to the leading 1 of x, counted from the last bit.
Magnitude(x) ==
    LET nz == {i \in 1..NumLimbs : x[i] # 0}
        li == CHOOSE i \in nz : \A j \in nz : i <= j
    IN  IF nz = {} THEN 0 ELSE (NumLimbs - li) * LimbBits + BitLength(x[li])

\* Bit k of x, counted from the last bit (k = 0).
BitAt(x, k) == (x[NumLimbs - k \div LimbBits] \div 2 ^ (k % LimbBits)) % 2

\* Whether x has a 1 below bit k.
LowNonZero(x, k) ==
    \/ x[NumLimbs - k \div LimbBits] % 2 ^ (k % LimbBits) # 0
    \/ \E i \in (NumLimbs - k \div LimbBits + 1)..NumLimbs : x[i] # 0

\* x with the bits below bit k cleared.
ClearBelow(x, k) ==
    [i \in 1..NumLimbs |->
        IF i < NumLimbs - k \div LimbBits THEN x[i]
        ELSE IF i = NumLimbs - k \div LimbBits
        THEN (x[i] \div 2 ^ (k % LimbBits)) * 2 ^ (k % LimbBits)
        ELSE 0]

\* x + 2^k in units of the last bit.
AddBit(x, k) ==
    Carry([x EXCEPT ![NumLimbs - k \div LimbBits] = @ + 2 ^ (k % LimbBits)])

\* Round to nearest, ties to even, at DoublePrecision significant bits.
RoundDouble(x, sticky) ==
    LET drop == Magnitude(x) - DoublePrecision
    IN  IF drop <= 0 THEN x
        ELSE LET up == /\ BitAt(x, drop - 1) = 1
                       /\ (sticky \/ LowNonZero(x, drop - 1) \/ BitAt(x, drop) = 1)
             IN  IF up THEN AddBit(ClearBelow(x, drop), drop) ELSE ClearBelow(x, drop)

\* float(n) for a small natural n.
float_of_int(n) == [i \in 1..NumLimbs |-> IF i = 1 THEN n ELSE 0]

\* a / b for Python ints a >= 0, b > 0: the correctly rounded quotient.
float_div(a, b) == RoundDouble(FixQuot(a, b).limbs, FixQuot(a, b).sticky)

\* x * m for a float x and an int m.
float_mul(x, m) == RoundDouble(FixMulNat(x, m), FALSE)

\* x + y for floats.
float_add(x, y) == RoundDouble(FixAdd(x, y), FALSE)

\* ------------------------------------------------------------------------
\* Metrics (calculate_dq_metrics)
\* ------------------------------------------------------------------------

\* A variant that counts the quarantined outliers as gold.
gold_count_with_outliers(clean_cnt, outlier_cnt) == clean_cnt

gold_count_of(clean_cnt, outlier_cnt) == clean_cnt - outlier_cnt

\* A variant that counts the DQ failures only.
total_anomalies_without_outliers(dq_failure_cnt, outlier_cnt) == dq_failure_cnt

total_anomalies_of(dq_failure_cnt, outlier_cnt) == dq_failure_cnt + outlier_cnt

\* (part / raw_count * 100) if raw_count > 0 else 0
percent_of(part, raw_cnt) ==
    IF raw_cnt > 0 THEN float_mul(float_div(part, raw_cnt), 100) ELSE float_of_int(0)

calculate_dq_metrics(raw_cnt, clean_cnt, dq_failure_cnt, outlier_cnt) ==
    LET total_anomalies == total_anomalies_of(dq_failure_cnt, outlier_cnt)
        gold_count == gold_count_of(clean_cnt, outlier_cnt)
    IN  [total_records |-> raw_cnt,
         gold_records |-> gold_count,
         silver_records |-> dq_failure_cnt,
         quarantine_records |-> outlier_cnt,
         total_anomalies |-> total_anomalies,
         data_quality_score |-> percent_of(gold_count, raw_cnt),
         anomaly_rate |-> percent_of(total_anomalies, raw_cnt)]

\* ------------------------------------------------------------------------
\* The local pandas pipeline (test_dq_validation.py)
\* ------------------------------------------------------------------------
\* None, NaN and NaT are NULL; a comparison with one of them is False.

\* A variant with the amount bounds the wrong way round.
pandas_DQ_THRESHOLDS_inverted ==
    [min_claim_amount |-> 100000,
     max_claim_amount |-> 0,
     npi_length |-> 10,
     max_days_to_submission |-> 365]

pandas_DQ_THRESHOLDS ==
    [min_claim_amount |-> 0,
     max_claim_amount |-> 100000,
     npi_length |-> 10,
     max_days_to_submission |-> 365]

VALID_STATUSES == {"PAID", "DENIED", "PENDING"}
VALID_GENDERS == {"M", "F", "U"}

\* Series.isna()
pandas_isna(x) == IsNullValue(x)

\* Series < value and Series > value
pandas_lt(a, b) == ~IsNullValue(a) /\ ~IsNullValue(b) /\ Val(a) < Val(b)
pandas_gt(a, b) == ~IsNullValue(a) /\ ~IsNullValue(b) /\ Val(a) > Val(b)

\* Series.isin(list)
pandas_isin(x, list) == ~IsNullValue(x) /\ Val(x) \in list

\* Series.astype(str): a missing value becomes the text nan.
pandas_astype_str(x) == IF IsNullValue(x) THEN <<"n", "a", "n">> ELSE Val(x)

\* df['provider_npi'].astype(str).str.match(r'^\d{10}$')
pandas_npi_valid(r) == MatchesNpi(pandas_astype_str(r.provider_npi))

\* (submission_date - service_date).dt.days
pandas_days_to_submission(r) == datediff(r.submission_date, r.service_date)

\* The rules in the order the script applies them: code and mask.
pandas_rules(r) ==
    << <<"MISSING_MEMBER_ID;", pandas_isna(r.member_id)>>,
       <<"MISSING_NPI;", pandas_isna(r.provider_npi)>>,
       <<"MISSING_CPT;", pandas_isna(r.cpt_code)>>,
       <<"MISSING_DIAGNOSIS;", pandas_isna(r.icd10_code) \/ r.icd10_code = Some("")>>,
       <<"MISSING_AMOUNT;", pandas_isna(r.claim_amount)>>,
       <<"INVALID_NPI;", ~pandas_npi_valid(r)>>,
       <<"NEGATIVE_AMOUNT;",
         pandas_lt(r.claim_amount, Some(pandas_DQ_THRESHOLDS.min_claim_amount))>>,
       <<"EXCESSIVE_AMOUNT;",
         pandas_gt(r.claim_amount, Some(pandas_DQ_THRESHOLDS.max_claim_amount))>>,
       <<"FUTURE_SERVICE_DATE;", pandas_gt(r.service_date, Some(current_date))>>,
       <<"LATE_SUBMISSION;",
         pandas_gt(pandas_days_to_submission(r),
                   Some(pandas_DQ_THRESHOLDS.max_days_to_submission))>>,
       <<"SUBMISSION_BEFORE_SERVICE;", pandas_lt(r.submission_date, r.service_date)>>,
       <<"INVALID_STATUS;", ~pandas_isin(r.claim_status, VALID_STATUSES)>>,
       <<"INVALID_GENDER;", ~pandas_isin(r.patient_gender, VALID_GENDERS)>> >>

\* The dq_issues column of one row: every code whose mask holds, each
\* appended with +=.
pandas_dq_issues(r) ==
    LET hit == SelectSeq(pandas_rules(r), LAMBDA rule : rule[2])
    IN  [k \in 1..Len(hit) |-> hit[k][1]]

\* df['is_anomaly'] = df['dq_issues'].str.len() > 0
pandas_is_anomaly(r) == Len(pandas_dq_issues(r)) > 0

\* clean_df = df[~df['is_anomaly']], helper columns dropped.
pandas_clean_df(df) == SelectSeq(df, LAMBDA r : ~pandas_is_anomaly(r))

\* anomalies_df = df[df['is_anomaly']]
pandas_anomalies_df(df) ==
    LET bad == SelectSeq(df, LAMBDA r : pandas_is_anomaly(r))
    IN  [k \in 1..Len(bad) |-> [row |-> bad[k], dq_issues |-> pandas_dq_issues(bad[k])]]

\* calculate_dq_metrics(raw_count, clean_count, anomaly_count) of the script.
pandas_calculate_dq_metrics(raw_cnt, clean_cnt, anomaly_cnt) ==
    [raw_records |-> raw_cnt,
     clean_records |-> clean_cnt,
     anomaly_records |-> anomaly_cnt,
     data_quality_score |->
        IF raw_cnt > 0 THEN float_mul(float_div(clean_cnt, raw_cnt), 100) ELSE float_of_int(0),
     anomaly_rate |->
        IF raw_cnt > 0 THEN float_mul(float_div(anomaly_cnt, raw_cnt), 100)
        ELSE float_of_int(0)]

\* The count, the sum and the sum of squares of the amounts xs.
Moments(xs) ==
    [cnt |-> Len(xs),
     sum |-> SumSeq(xs),
     squares |-> BigSum([j \in 1..Len(xs) |-> BigSquare(xs[j])])]

\* |x - mean| > 3 * stddev for amounts of moments m, stddev the sample
\* standard deviation: squared and cleared of fractions.
BeyondThreeSigma(x, m) ==
    ~FixLeq(BigMul(BigSquare(m.cnt * x - m.sum), m.cnt - 1),
            BigMul(FixSub(BigMul(m.squares, m.cnt), BigSquare(m.sum)), 9 * m.cnt))

\* stats_df of the script for one cpt_code: groupby(...).agg(mean, std, count).
pandas_stats(df, c) == Moments(Amounts(SelectRows(df, c)))

\* The is_statistical_outlier column of a row whose group has moments m:
\* z_score stays 0.0 unless stddev_amount > 0 (std of one value is NaN).
pandas_is_statistical_outlier(r, m) ==
    /\ m.cnt >= 2
    /\ FixSub(BigMul(m.squares, m.cnt), BigSquare(m.sum)) # FixZero
    /\ BeyondThreeSigma(Val(r.claim_amount), m)

\* One pass of main's loop over a file: the split and the metrics.
pandas_main(df) ==
    LET clean_df == pandas_clean_df(df)
        anomaly_df == pandas_anomalies_df(df)
    IN  [clean_df |-> clean_df,
         anomaly_df |-> anomaly_df,
         metrics |-> pandas_calculate_dq_metrics(Len(df), Len(clean_df), Len(anomaly_df))]

\* ------------------------------------------------------------------------
\* Input files
\* ------------------------------------------------------------------------
\* Rows carry the columns the rules and the statistics read; provider_id,
\* denial_reason, patient_dob, ingestion_timestamp, source_file and the gold
\* partition columns year and month are carried through unread and are left
\* out.

MaxRun == 10
MaxOverrides == 2



BaseClaim ==
    [member_id |-> Some("MBR000123"),
     provider_npi |-> Some(<<"1", "2", "3", "4", "5", "6", "7", "8", "9", "0">>),
     cpt_code |-> Some("99213"),
     icd10_code |-> Some("E11.9"),
     claim_amount |-> Some(100),
     service_date |-> Some(990),
     submission_date |-> Some(995),
     claim_status |-> Some("PAID"),
     patient_gender |-> Some("M"),
     patient_zip |-> Some(<<"1", "2", "3", "4", "5">>)]

\* What a column of a defective or borderline record may hold instead.
FieldVariants ==
    [member_id |-> {NULL},
     provider_npi |-> {NULL, Some(<<"1", "2", "3">>),
                       Some(<<"1", "2", "3", "4", "5", "6", "7", "8", "9", "A">>)},
     cpt_code |-> {NULL, Some("99214")},
     icd10_code |-> {NULL, Some("")},
     claim_amount |-> {NULL, Some(-250), Some(-1), Some(0), Some(100000), Some(100001)},
     service_date |-> {NULL, Some(1000), Some(1001)},
     submission_date |-> {NULL, Some(989), Some(990), Some(1000), Some(1355), Some(1356),
                          Some(1367)},
     claim_status |-> {NULL, Some("BOGUS")},
     patient_gender |-> {NULL, Some("X")},
     patient_zip |-> {NULL, Some(<<"1", "2", "3", "4">>),
                      Some(<<"1", "2", "3", "4", "5", "-", "6", "7", "8", "9">>),
                      Some(<<"1", "2", "3", "4", "5", "-", "6", "7", "8">>)}]

Fields == DOMAIN FieldVariants

RECURSIVE Overrides(_)
\* The base claim with at most k columns replaced.
Overrides(k) ==
    IF k = 0 THEN {BaseClaim}
    ELSE LET prev == Overrides(k - 1)
         IN  prev \cup UNION {{[t EXCEPT ![f] = v] : v \in FieldVariants[f], t \in prev} :
                              f \in Fields}

\* k clean rows of procedure cpt that all bill amount.
Run(k, cpt, amount) ==
    [i \in 1..k |-> [BaseClaim EXCEPT !.cpt_code = Some(cpt), !.claim_amount = Some(amount)]]

\* Clean rows of procedure cpt billing the given amounts.
Billed(cpt, amounts) ==
    [i \in 1..Len(amounts) |->
        [BaseClaim EXCEPT !.cpt_code = Some(cpt), !.claim_amount = Some(amounts[i])]]

\* Amounts next to a run of 100s: none, one high, one low, a pair of which
\* the higher is exactly three deviations out after nine 100s, two equal
\* highs, and a spread pair.
ExtraAmounts == {<<>>, <<200>>, <<0>>, <<110, 200>>, <<200, 200>>, <<90, 150>>}

\* A second procedure group: absent, a single row, two equal rows, two
\* different rows.
OtherGroups == {<<>>, <<70>>, <<70, 70>>, <<70, 80>>}

\* Defective rows riding along with the clean groups.
DefectiveRows ==
    {<<>>,
     <<[BaseClaim EXCEPT !.claim_status = Some("BOGUS"), !.claim_amount = Some(500)]>>,
     <<[BaseClaim EXCEPT !.claim_amount = Some(-250)]>>,
     <<[BaseClaim EXCEPT !.patient_zip = Some(<<"1", "2", "3", "4">>),
                         !.claim_amount = Some(300)],
       [BaseClaim EXCEPT !.member_id = NULL, !.cpt_code = NULL]>>}

\* A hundred amounts within spread of 300.
AmountsNear300(spread) ==
    [i \in 1..100 |-> 300 - spread + ((7 * i) % (2 * spread + 1))]

\* A group of a hundred claims close to 300 and one claim at 50000, the
\* extreme claim last, first or in the middle of the file.
ExtremeClaimBatches ==
    {Billed("99213", SubSeq(AmountsNear300(spread), 1, at) \o <<50000>>
                        \o SubSeq(AmountsNear300(spread), at + 1, 100)) :
        spread \in {0, 10, 50}, at \in {0, 50, 100}}

\* Files that exercise the statistics.
StatBatches ==
    {Run(k, "99213", 100) \o Billed("99213", extra) \o Billed("99214", other) \o bad :
        k \in 0..MaxRun, extra \in ExtraAmounts, other \in OtherGroups,
        bad \in DefectiveRows}
    \cup ExtremeClaimBatches

\* Files of one record that exercise the rules.
RuleBatches == {<<t>> : t \in Overrides(MaxOverrides)}

\* read_raw_claims: the rows of the file, claim_id the row number.
WithClaimIds(rows) ==
    [i \in 1..Len(rows) |-> [claim_id |-> i] @@ rows[i]]

Batches == {WithClaimIds(b) : b \in StatBatches \cup RuleBatches}

\* Files of one procedure code whose groups differ from file to file: short
\* and long runs of 100s, with and without a claim at 200 and a defective
\* claim.
RepeatFiles ==
    {WithClaimIds(Run(k, "99213", 100) \o Billed("99213", extra) \o bad) :
        k \in {0, MaxRun}, extra \in {<<>>, <<200>>},
        bad \in {<<>>, <<[BaseClaim EXCEPT !.claim_amount = Some(-250)]>>}}

\* How many times the job is started on the same buckets.
MaxJobRuns == 3

\* ------------------------------------------------------------------------
\* The job
\* ------------------------------------------------------------------------

VARIABLES
    pc,                     \* the step of the script to run next
    raw_bucket,             \* the files of S3_RAW_BUCKET, by key
    processed_bucket,       \* the datasets appended under gold/, silver/, quarantine/
    S3_INPUT_KEY,           \* the job argument: the key of the triggering file
    job_runs,               \* how many times the job was started
    cloudwatch,             \* the put_metric_data calls that succeeded
    committed,              \* how many runs reached job.commit()
    raw_claims_df, raw_count,
    clean_claims, dq_failures, clean_count, dq_failure_count,
    claims_with_outliers, statistical_outliers, outlier_count,
    gold_claims, silver_claims, quarantine_claims,
    dq_metrics

\* The orchestrator Lambda (src/lambda/orchestrator/app.py).
VARIABLES
    S3_LOGS_BUCKET,         \* os.getenv('S3_LOGS_BUCKET', '')
    SNS_TOPIC_ARN,          \* os.getenv('SNS_TOPIC_ARN', '')
    GLUE_JOB_NAME,          \* os.getenv('GLUE_JOB_NAME', '')
    raw_objects,            \* the objects the raw bucket lists under claims/
    logs_objects,           \* the keys written to the logs bucket
    aws_calls,              \* the boto3 calls made, in order, with their outcome
    orch_pc,                \* where the handler stands
    event,                  \* the event of the invocation
    action,                 \* lambda_handler: action
    results_success,        \* lambda_handler: results['success']
    remediation_result,     \* quarantine_result, restart_result or cost_event
    Contents,               \* quarantine_data: response['Contents']
    obj_index,              \* quarantine_data: the position of the for loop
    quarantined_files,      \* quarantine_data: quarantined_files
    response                \* what the handler returned

orchestrator_vars ==
    <<S3_LOGS_BUCKET, SNS_TOPIC_ARN, GLUE_JOB_NAME, raw_objects, logs_objects,
      aws_calls, orch_pc, event, action, results_success, remediation_result,
      Contents, obj_index, quarantined_files, response>>

\* The glue_trigger Lambda (src/lambda/glue_trigger/app.py).
VARIABLES
    trigger_pc,             \* where the handler stands
    Records,                \* event['Records']
    record_index,           \* the position of the for loop
    started_runs,           \* the job runs Glue accepted, in order
    trigger_calls,          \* the boto3 calls made, in order, with their outcome
    trigger_response,       \* lambda_handler: response, of the last start_glue_job
    trigger_returned        \* what the handler returned

trigger_vars ==
    <<trigger_pc, Records, record_index, started_runs, trigger_calls, trigger_response,
      trigger_returned>>

\* The cost collector Lambda (src/lambda/cost_collector/app.py).
VARIABLES
    alert_topic,            \* SNS_TOPIC_ARN of the cost collector
    collector_pc,           \* where the handler stands
    collector_action,       \* lambda_handler: action
    cost_data,              \* lambda_handler: cost_data
    collector_calls,        \* the boto3 calls made, in order, with their outcome
    threshold_exceeded,     \* what check_cost_threshold returned
    collector_response      \* what the handler returned

collector_vars ==
    <<alert_topic, collector_pc, collector_action, cost_data, collector_calls,
      threshold_exceeded, collector_response>>

\* The state of the Lambda functions around the job.
lambdas == <<orchestrator_vars, trigger_vars, collector_vars>>

\* What a step of one Lambda leaves alone.
outside_orchestrator == <<trigger_vars, collector_vars>>

outside_trigger == <<orchestrator_vars, collector_vars>>

outside_collector == <<orchestrator_vars, trigger_vars>>

job_vars == <<pc, DQ_THRESHOLDS, raw_bucket, processed_bucket, S3_INPUT_KEY, job_runs,
          cloudwatch, committed,
          raw_claims_df, raw_count, clean_claims, dq_failures, clean_count,
          dq_failure_count, claims_with_outliers, statistical_outliers, outlier_count,
          gold_claims, silver_claims, quarantine_claims, dq_metrics>>

vars == <<job_vars, lambdas>>

\* What lives outside the process of one job run.
buckets == <<raw_bucket, processed_bucket, S3_INPUT_KEY, job_runs, cloudwatch, committed>>

\* The script's variables before its first statement ran.
FreshProcess ==
    /\ raw_claims_df = <<>>
    /\ raw_count = 0
    /\ clean_claims = <<>>
    /\ dq_failures = <<>>
    /\ clean_count = 0
    /\ dq_failure_count = 0
    /\ claims_with_outliers = <<>>
    /\ statistical_outliers = <<>>
    /\ outlier_count = 0
    /\ gold_claims = <<>>
    /\ silver_claims = <<>>
    /\ quarantine_claims = <<>>
    /\ dq_metrics = NULL

\* The job before its first run.
JobAtRest ==
    /\ pc = "idle"
    /\ DQ_THRESHOLDS = DeployedThresholds
    /\ raw_bucket = <<>>
    /\ processed_bucket = [gold |-> <<>>, silver |-> <<>>, quarantine |-> <<>>]
    /\ S3_INPUT_KEY = 0
    /\ job_runs = 0
    /\ cloudwatch = <<>>
    /\ committed = 0
    /\ FreshProcess

\* The handler of the orchestrator before an invocation.
OrchestratorIdle ==
    /\ logs_objects = {}
    /\ aws_calls = <<>>
    /\ orch_pc = "idle"
    /\ event = <<>>
    /\ action = ""
    /\ results_success = FALSE
    /\ remediation_result = NULL
    /\ Contents = <<>>
    /\ obj_index = 0
    /\ quarantined_files = <<>>
    /\ response = NULL

\* The orchestrator not configured and never invoked.
OrchestratorAtRest ==
    /\ S3_LOGS_BUCKET = ""
    /\ SNS_TOPIC_ARN = ""
    /\ GLUE_JOB_NAME = ""
    /\ raw_objects = <<>>
    /\ OrchestratorIdle

\* The handler of glue_trigger before an invocation.
TriggerAtRest ==
    /\ trigger_pc = "idle"
    /\ Records = <<>>
    /\ record_index = 0
    /\ started_runs = <<>>
    /\ trigger_calls = <<>>
    /\ trigger_response = NULL
    /\ trigger_returned = NULL

\* The handler of the cost collector before an invocation.
CollectorIdle ==
    /\ collector_pc = "idle"
    /\ collector_action = ""
    /\ cost_data = NULL
    /\ collector_calls = <<>>
    /\ threshold_exceeded = NULL
    /\ collector_response = NULL

CollectorAtRest == alert_topic = "" /\ CollectorIdle

LambdasAtRest == OrchestratorAtRest /\ TriggerAtRest /\ CollectorAtRest

Init == JobAtRest /\ LambdasAtRest

\* A run of the job starts: a process of its own, nothing assigned yet.
StartProcess ==
    /\ pc \in {"idle", "done", "failed"}
    /\ job_runs' = job_runs + 1
    /\ pc' = "read"
    /\ raw_claims_df' = <<>>
    /\ raw_count' = 0
    /\ clean_claims' = <<>>
    /\ dq_failures' = <<>>
    /\ clean_count' = 0
    /\ dq_failure_count' = 0
    /\ claims_with_outliers' = <<>>
    /\ statistical_outliers' = <<>>
    /\ outlier_count' = 0
    /\ gold_claims' = <<>>
    /\ silver_claims' = <<>>
    /\ quarantine_claims' = <<>>
    /\ dq_metrics' = NULL
    /\ UNCHANGED <<processed_bucket, cloudwatch, committed, DQ_THRESHOLDS, lambdas>>

\* A file from files arrives in the raw bucket, under claims/, and the job is
\* started on its key; at most limit runs.
StartJobRun(files, limit) ==
    /\ job_runs < limit
    /\ \E b \in files : raw_bucket' = Append(raw_bucket, b)
    /\ S3_INPUT_KEY' = Len(raw_bucket) + 1
    /\ StartProcess

\* The key the orchestrator restarts the job on: the prefix claims/ itself.
ClaimsPrefix == 0

\* restart_glue_job of the orchestrator: a run on the prefix, no new file.
RestartJobRun ==
    /\ job_runs < MaxJobRuns
    /\ raw_bucket # <<>>
    /\ S3_INPUT_KEY' = ClaimsPrefix
    /\ UNCHANGED raw_bucket
    /\ StartProcess

\* One run of the job on any file.
TriggerJob == StartJobRun(Batches, 1)

\* Run after run on the same buckets.
TriggerJobAgain == StartJobRun(RepeatFiles, MaxJobRuns)

\* A variant that loads every file of the bucket.
read_whole_bucket(bucket, key) ==
    LET RECURSIVE Upto(_)
        Upto(k) == IF k = 0 THEN <<>> ELSE Upto(k - 1) \o bucket[k]
    IN  Upto(Len(bucket))

RECURSIVE FilesUpTo(_, _)
\* The rows of the first k files of the bucket, file after file.
FilesUpTo(bucket, k) == IF k = 0 THEN <<>> ELSE FilesUpTo(bucket, k - 1) \o bucket[k]

\* spark.read...load(RAW_CLAIMS_PATH): the rows of the file under the key,
\* or of every file under it when the key is the prefix.
read_raw_claims(bucket, key) ==
    IF key = ClaimsPrefix THEN FilesUpTo(bucket, Len(bucket)) ELSE bucket[key]

\* raw_claims_df = read_raw_claims(RAW_CLAIMS_PATH); raw_count = count()
ReadRawClaims ==
    /\ pc = "read"
    /\ raw_claims_df' = read_raw_claims(raw_bucket, S3_INPUT_KEY)
    /\ raw_count' = Len(raw_claims_df')
    /\ pc' = "validate"
    /\ UNCHANGED <<clean_claims, dq_failures, clean_count, dq_failure_count,
                   claims_with_outliers, statistical_outliers, outlier_count,
                   gold_claims, silver_claims, quarantine_claims, dq_metrics>>
    /\ UNCHANGED <<buckets, DQ_THRESHOLDS, lambdas>>

\* clean_claims, dq_failures = validate_data_quality(raw_claims_df), and the
\* two counts.
RunValidation ==
    /\ pc = "validate"
    /\ IF ThresholdKeys \subseteq DOMAIN DQ_THRESHOLDS
       THEN /\ clean_claims' = validate_clean(raw_claims_df)
            /\ dq_failures' = validate_failures(raw_claims_df)
            /\ clean_count' = Len(clean_claims')
            /\ dq_failure_count' = Len(dq_failures')
            /\ pc' = "detect"
       ELSE \* DQ_THRESHOLDS[...] raises KeyError and the run fails.
            /\ pc' = "failed"
            /\ UNCHANGED <<clean_claims, dq_failures, clean_count, dq_failure_count>>
    /\ UNCHANGED <<raw_claims_df, raw_count,
                   claims_with_outliers, statistical_outliers, outlier_count,
                   gold_claims, silver_claims, quarantine_claims, dq_metrics>>
    /\ UNCHANGED <<buckets, DQ_THRESHOLDS, lambdas>>

\* claims_with_outliers = detect_statistical_anomalies(clean_claims), the
\* outliers among them and their count.
DetectOutliers ==
    /\ pc = "detect"
    /\ claims_with_outliers' = detect_statistical_anomalies(clean_claims)
    /\ statistical_outliers' = outliers_of(claims_with_outliers')
    /\ outlier_count' = Len(statistical_outliers')
    /\ pc' = "outputs"
    /\ UNCHANGED <<raw_claims_df, raw_count, clean_claims, dq_failures, clean_count,
                   dq_failure_count, gold_claims, silver_claims, quarantine_claims,
                   dq_metrics>>
    /\ UNCHANGED <<buckets, DQ_THRESHOLDS, lambdas>>

\* The three tier DataFrames.
PrepareOutputs ==
    /\ pc = "outputs"
    /\ gold_claims' = gold_of(claims_with_outliers)
    /\ silver_claims' = silver_of(dq_failures)
    /\ quarantine_claims' = quarantine_of(statistical_outliers)
    /\ pc' = "write_gold"
    /\ UNCHANGED <<raw_claims_df, raw_count, clean_claims, dq_failures, clean_count,
                   dq_failure_count, claims_with_outliers, statistical_outliers,
                   outlier_count, dq_metrics>>
    /\ UNCHANGED <<buckets, DQ_THRESHOLDS, lambdas>>

\* A variant that replaces what the path holds.
overwrite_mode(existing, df) == <<df>>

\* DataFrame.write.mode("append"): one more dataset under the path.
append_mode(existing, df) == Append(existing, df)

\* gold_claims.write.mode("append")...parquet(GOLD_OUTPUT_PATH)
WriteGold ==
    /\ pc = "write_gold"
    /\ processed_bucket' =
        [processed_bucket EXCEPT !.gold = append_mode(processed_bucket.gold, gold_claims)]
    /\ pc' = "write_silver"
    /\ UNCHANGED <<raw_bucket, S3_INPUT_KEY, job_runs, cloudwatch, committed, DQ_THRESHOLDS, lambdas>>
    /\ UNCHANGED <<raw_claims_df, raw_count, clean_claims, dq_failures, clean_count,
                   dq_failure_count, claims_with_outliers, statistical_outliers,
                   outlier_count, gold_claims, silver_claims, quarantine_claims,
                   dq_metrics>>

\* if dq_failure_count > 0: silver_claims.write.mode("append")
WriteSilver ==
    /\ pc = "write_silver"
    /\ processed_bucket' =
        IF dq_failure_count > 0
        THEN [processed_bucket EXCEPT
                !.silver = append_mode(processed_bucket.silver, silver_claims)]
        ELSE processed_bucket
    /\ pc' = "write_quarantine"
    /\ UNCHANGED <<raw_bucket, S3_INPUT_KEY, job_runs, cloudwatch, committed, DQ_THRESHOLDS, lambdas>>
    /\ UNCHANGED <<raw_claims_df, raw_count, clean_claims, dq_failures, clean_count,
                   dq_failure_count, claims_with_outliers, statistical_outliers,
                   outlier_count, gold_claims, silver_claims, quarantine_claims,
                   dq_metrics>>

\* if outlier_count > 0: quarantine_claims.write.mode("append")
WriteQuarantine ==
    /\ pc = "write_quarantine"
    /\ processed_bucket' =
        IF outlier_count > 0
        THEN [processed_bucket EXCEPT
                !.quarantine = append_mode(processed_bucket.quarantine, quarantine_claims)]
        ELSE processed_bucket
    /\ pc' = "metrics"
    /\ UNCHANGED <<raw_bucket, S3_INPUT_KEY, job_runs, cloudwatch, committed, DQ_THRESHOLDS, lambdas>>
    /\ UNCHANGED <<raw_claims_df, raw_count, clean_claims, dq_failures, clean_count,
                   dq_failure_count, claims_with_outliers, statistical_outliers,
                   outlier_count, gold_claims, silver_claims, quarantine_claims,
                   dq_metrics>>

\* dq_metrics = calculate_dq_metrics(raw_count, clean_count, dq_failure_count,
\* outlier_count)
CalculateMetrics ==
    /\ pc = "metrics"
    /\ dq_metrics' = Some(calculate_dq_metrics(raw_count, clean_count, dq_failure_count,
                                               outlier_count))
    /\ pc' = "push"
    /\ UNCHANGED <<raw_claims_df, raw_count, clean_claims, dq_failures, clean_count,
                   dq_failure_count, claims_with_outliers, statistical_outliers,
                   outlier_count, gold_claims, silver_claims, quarantine_claims>>
    /\ UNCHANGED <<buckets, DQ_THRESHOLDS, lambdas>>

\* A variant that swallows the error of a failed push.
PushMetricsFailsQuietly ==
    /\ pc = "push"
    /\ pc' = "commit"
    /\ UNCHANGED <<buckets, DQ_THRESHOLDS, lambdas>>
    /\ UNCHANGED <<raw_claims_df, raw_count, clean_claims, dq_failures, clean_count,
                   dq_failure_count, claims_with_outliers, statistical_outliers,
                   outlier_count, gold_claims, silver_claims, quarantine_claims,
                   dq_metrics>>

\* push_metrics_to_cloudwatch(dq_metrics), put_metric_data raising: the
\* except block prints and re-raises, and the script ends there.
PushMetricsFails ==
    /\ pc = "push"
    /\ pc' = "failed"
    /\ UNCHANGED <<buckets, DQ_THRESHOLDS, lambdas>>
    /\ UNCHANGED <<raw_claims_df, raw_count, clean_claims, dq_failures, clean_count,
                   dq_failure_count, claims_with_outliers, statistical_outliers,
                   outlier_count, gold_claims, silver_claims, quarantine_claims,
                   dq_metrics>>

\* push_metrics_to_cloudwatch(dq_metrics), put_metric_data succeeding.
PushMetrics ==
    /\ pc = "push"
    /\ cloudwatch' = Append(cloudwatch, [source_file |-> S3_INPUT_KEY,
                                         metrics |-> Val(dq_metrics)])
    /\ pc' = "commit"
    /\ UNCHANGED <<raw_bucket, processed_bucket, S3_INPUT_KEY, job_runs, committed,
                   DQ_THRESHOLDS, lambdas>>
    /\ UNCHANGED <<raw_claims_df, raw_count, clean_claims, dq_failures, clean_count,
                   dq_failure_count, claims_with_outliers, statistical_outliers,
                   outlier_count, gold_claims, silver_claims, quarantine_claims,
                   dq_metrics>>

\* job.commit()
CommitJob ==
    /\ pc = "commit"
    /\ committed' = committed + 1
    /\ pc' = "done"
    /\ UNCHANGED <<raw_bucket, processed_bucket, S3_INPUT_KEY, job_runs, cloudwatch,
                   DQ_THRESHOLDS, lambdas>>
    /\ UNCHANGED <<raw_claims_df, raw_count, clean_claims, dq_failures, clean_count,
                   dq_failure_count, claims_with_outliers, statistical_outliers,
                   outlier_count, gold_claims, silver_claims, quarantine_claims,
                   dq_metrics>>

\* The statements of the script, in order.
JobStep ==
    \/ ReadRawClaims
    \/ RunValidation
    \/ DetectOutliers
    \/ PrepareOutputs
    \/ WriteGold
    \/ WriteSilver
    \/ WriteQuarantine
    \/ CalculateMetrics
    \/ PushMetrics
    \/ PushMetricsFails
    \/ CommitJob

Next == TriggerJob \/ JobStep

Spec == Init /\ [][Next]_vars

NextOfRepeatedRuns == TriggerJobAgain \/ JobStep

NextOfRestarts == TriggerJobAgain \/ RestartJobRun \/ JobStep

\* Runs on new files and restarts by the orchestrator, on the same buckets.
RestartedSpec == Init /\ [][NextOfRestarts]_vars

\* Dicts a deployed script may hold: the repository's, one with the amount
\* bounds the wrong way round, one with text for a bound, one with a key
\* missing.
Configurations ==
    {DeployedThresholds,
     [DeployedThresholds EXCEPT !.min_claim_amount = Some(max_claim_amount),
                                !.max_claim_amount = Some(min_claim_amount)],
     [DeployedThresholds EXCEPT !.max_claim_amount = NULL],
     [k \in ThresholdKeys \ {"max_days_to_submission"} |-> DeployedThresholds[k]]}

\* update_glue_job.py puts the script, its DQ_THRESHOLDS as edited, in place
\* of the deployed one; nothing looks at the dict.
DeployScript ==
    /\ pc = "idle"
    /\ DQ_THRESHOLDS = DeployedThresholds
    /\ DQ_THRESHOLDS' \in Configurations \ {DeployedThresholds}
    /\ UNCHANGED <<pc, buckets, lambdas>>
    /\ UNCHANGED <<raw_claims_df, raw_count, clean_claims, dq_failures, clean_count,
                   dq_failure_count, claims_with_outliers, statistical_outliers,
                   outlier_count, gold_claims, silver_claims, quarantine_claims,
                   dq_metrics>>

\* Files for the runs of a redeployed script: the files of RepeatFiles and
\* files of one record with at most one column off.
ConfiguredFiles == RepeatFiles \cup {WithClaimIds(<<t>>) : t \in Overrides(1)}

TriggerConfiguredJob == StartJobRun(ConfiguredFiles, 1)

NextOfRedeployed == DeployScript \/ TriggerConfiguredJob \/ JobStep

\* One run of the job after the script may have been redeployed.
RedeployedSpec == Init /\ [][NextOfRedeployed]_vars

\* The job started again and again on the same buckets.
RepeatedRunsSpec == Init /\ [][NextOfRepeatedRuns]_vars

\* ------------------------------------------------------------------------
\* The orchestrator Lambda
\* ------------------------------------------------------------------------

\* A Python str and None, as values of a dict.
PyStr(s) == [type |-> "str", value |-> s]

None == [type |-> "NoneType", value |-> ""]

\* dict.get(key, default)
dict_get(d, key, default) == IF key \in DOMAIN d THEN d[key] ELSE default

\* An S3 key is the tuple of its pieces between the slashes: claims/a.csv is
\* <<"claims", "a.csv">> and claims/ is <<"claims", "">>.
endswith_slash(key) == key[Len(key)] = ""

\* The names lambda_handler dispatches on, an unknown one and the empty one.
ActionNames ==
    {"quarantine_data", "handle_anomaly_spike", "restart_glue_job", "restart_etl",
     "handle_cost_spike", "cost_spike", "purge_data", ""}

\* The text of a JSON object with the one member "action".
ObjectBody(a) == "{\"action\": \"" \o a \o "\"}"

\* Request bodies: JSON objects, JSON that is no object, and no JSON.
JsonTexts ==
    {ObjectBody(a) : a \in ActionNames} \cup {"{}", "[]", "null", "\"restart_etl\"", "{\"action\": ", ""}

\* json.loads(s): the parsed value, or the exception raised.
json_loads(s) ==
    IF s.type # "str" THEN [raised |-> "TypeError", type |-> "", items |-> <<>>]
    ELSE IF \E a \in ActionNames : s.value = ObjectBody(a)
    THEN [raised |-> "", type |-> "dict",
          items |-> [action |-> PyStr(CHOOSE a \in ActionNames : s.value = ObjectBody(a))]]
    ELSE IF s.value = "{}" THEN [raised |-> "", type |-> "dict", items |-> <<>>]
    ELSE IF s.value = "[]" THEN [raised |-> "", type |-> "list", items |-> <<>>]
    ELSE IF s.value = "null" THEN [raised |-> "", type |-> "NoneType", items |-> <<>>]
    ELSE IF s.value = "\"restart_etl\"" THEN [raised |-> "", type |-> "str", items |-> <<>>]
    ELSE [raised |-> "JSONDecodeError", type |-> "", items |-> <<>>]

\* Events of API Gateway: with a body, with a null body, without the key.
ApiEvents ==
    {[httpMethod |-> PyStr("POST")], [httpMethod |-> PyStr("POST"), body |-> None]}
        \cup {[httpMethod |-> PyStr("POST"), body |-> PyStr(t)] : t \in JsonTexts}

\* Events of EventBridge and of CloudWatch alarms.
DirectEvents ==
    {[source |-> PyStr("aws.events")]}
        \cup {[action |-> PyStr(a)] : a \in ActionNames}
        \cup {[event_type |-> PyStr(a)] : a \in ActionNames}
        \cup {[action |-> PyStr("restart_etl"), event_type |-> PyStr("cost_spike")],
              [action |-> PyStr(""), event_type |-> PyStr("quarantine_data")]}

Events == ApiEvents \cup DirectEvents

\* What list_objects_v2 may find under claims/, in key order.
Listings ==
    LET dir == <<"claims", "">>
        a == <<"claims", "a.csv">>
        sub == <<"claims", "archive", "">>
        b == <<"claims", "b.csv">>
    IN  {<<>>, <<dir>>, <<a>>, <<dir, a>>, <<dir, a, b>>, <<a, sub, b>>}

\* An object of the raw bucket as uploaded.
Uploaded(key) == [Key |-> key, ETag |-> key, TagSet |-> <<>>]

\* How a boto3 call ends: it returns, raises ClientError, or raises
\* something else (a connection error, a parameter validation error).
CallOutcomes == {"ok", "ClientError", "Exception"}

\* The entry of aws_calls for one call.
Call(api, key, outcome) == [api |-> api, key |-> key, outcome |-> outcome]

\* The Lambda as deployed: its environment and the raw bucket it works on.
OrchestratorInit ==
    /\ JobAtRest
    /\ S3_LOGS_BUCKET \in {"", "dqad-logs"}
    /\ SNS_TOPIC_ARN \in {"", "arn:aws:sns:alerts"}
    /\ GLUE_JOB_NAME \in {"", "dqad-etl"}
    /\ raw_objects \in {[i \in 1..Len(l) |-> Uploaded(l[i])] : l \in Listings}
    /\ OrchestratorIdle
    /\ TriggerAtRest
    /\ CollectorAtRest

\* The variables a step of quarantine_data does not touch.
handler_frame == <<S3_LOGS_BUCKET, SNS_TOPIC_ARN, GLUE_JOB_NAME, event, action>>

\* lambda_handler up to results = {...}: the action is taken from the body
\* of an API Gateway event, else from the event itself.
HandlerEntry ==
    /\ orch_pc = "idle"
    /\ \E e \in Events :
        /\ event' = e
        /\ IF "httpMethod" \in DOMAIN e
           THEN LET body == json_loads(dict_get(e, "body", PyStr("{}")))
                IN  IF body.raised = "JSONDecodeError"
                    THEN /\ response' = Some([statusCode |-> 400, success |-> FALSE])
                         /\ orch_pc' = "returned"
                         /\ UNCHANGED action
                    ELSE IF body.raised # "" \/ body.type # "dict"
                    THEN /\ orch_pc' = "raised"
                         /\ UNCHANGED <<action, response>>
                    ELSE /\ action' = dict_get(body.items, "action", PyStr("")).value
                         /\ orch_pc' = "dispatch"
                         /\ UNCHANGED response
           ELSE /\ action' = dict_get(e, "action", dict_get(e, "event_type", PyStr(""))).value
                /\ orch_pc' = "dispatch"
                /\ UNCHANGED response
    /\ results_success' = FALSE
    /\ UNCHANGED <<S3_LOGS_BUCKET, SNS_TOPIC_ARN, GLUE_JOB_NAME, raw_objects, logs_objects,
                   aws_calls, remediation_result, Contents, obj_index, quarantined_files>>
    /\ UNCHANGED <<job_vars, outside_orchestrator>>

\* The if / elif chain on action.
Dispatch ==
    /\ orch_pc = "dispatch"
    /\ orch_pc' =
        IF action \in {"quarantine_data", "handle_anomaly_spike"} THEN "quarantine_data"
        ELSE IF action \in {"restart_glue_job", "restart_etl"} THEN "restart_glue_job"
        ELSE IF action \in {"handle_cost_spike", "cost_spike"} THEN "cost_spike"
        ELSE "respond"
    /\ UNCHANGED <<handler_frame, raw_objects, logs_objects, aws_calls, results_success,
                   remediation_result, Contents, obj_index, quarantined_files, response>>
    /\ UNCHANGED <<job_vars, outside_orchestrator>>

\* A remediation returns res; the handler stores it and sets
\* results['success'] = res.get('status') == 'success'.
RemediationReturns(res) ==
    /\ remediation_result' = Some(res)
    /\ results_success' = (res.status = "success")
    /\ orch_pc' = "log"

\* A call raised something no except clause of the remediation catches: the
\* handler's except Exception takes over.
Propagates ==
    /\ orch_pc' = "except"
    /\ UNCHANGED <<remediation_result, results_success>>

\* The dict a remediation returns (absent members are read with .get).
Result(status, files) ==
    [status |-> status, quarantined_count |-> Len(files), files |-> files]

\* quarantine_data up to the for loop: the guard on S3_LOGS_BUCKET and
\* list_objects_v2.
QuarantineData ==
    /\ orch_pc = "quarantine_data"
    /\ quarantined_files' = <<>>
    /\ IF S3_LOGS_BUCKET = ""
       THEN /\ RemediationReturns(Result("skipped", <<>>))
            /\ UNCHANGED <<aws_calls, Contents, obj_index>>
       ELSE \E outcome \in CallOutcomes :
            /\ aws_calls' = Append(aws_calls, Call("list_objects_v2", <<"claims", "">>, outcome))
            /\ CASE outcome = "ok" /\ raw_objects # <<>> ->
                      /\ Contents' = [i \in 1..Len(raw_objects) |-> raw_objects[i].Key]
                      /\ obj_index' = 1
                      /\ orch_pc' = "for_obj"
                      /\ UNCHANGED <<remediation_result, results_success>>
                 [] outcome = "ok" /\ raw_objects = <<>> ->
                      /\ RemediationReturns(Result("success", <<>>))
                      /\ UNCHANGED <<Contents, obj_index>>
                 [] outcome = "ClientError" ->
                      /\ RemediationReturns(Result("error", <<>>))
                      /\ UNCHANGED <<Contents, obj_index>>
                 [] outcome = "Exception" ->
                      /\ Propagates
                      /\ UNCHANGED <<Contents, obj_index>>
    /\ UNCHANGED <<handler_frame, raw_objects, logs_objects, response>>
    /\ UNCHANGED <<job_vars, outside_orchestrator>>

\* A variant that removes the original.
delete_object(objects, key) == SelectSeq(objects, LAMBDA o : o.Key # key)

\* s3_client.put_object_tagging(... TagSet Status = Quarantined) on key.
put_object_tagging(objects, key) ==
    [i \in 1..Len(objects) |->
        IF objects[i].Key = key
        THEN [objects[i] EXCEPT !.TagSet = <<[Key |-> "Status", Value |-> "Quarantined"]>>]
        ELSE objects[i]]

\* The key of the copy in the logs bucket: quarantine/<timestamp>/<source_key>.
quarantine_key(source_key) == <<"quarantine">> \o source_key

\* The head of the for loop: the next object, directories skipped, up to
\* copy_object; after the last object quarantine_data returns success.
CopyObject ==
    /\ orch_pc = "for_obj"
    /\ IF obj_index > Len(Contents)
       THEN /\ RemediationReturns(Result("success", quarantined_files))
            /\ UNCHANGED <<aws_calls, logs_objects, obj_index>>
       ELSE IF endswith_slash(Contents[obj_index])
       THEN /\ obj_index' = obj_index + 1
            /\ UNCHANGED <<aws_calls, logs_objects, orch_pc, remediation_result,
                           results_success>>
       ELSE \E outcome \in CallOutcomes :
            /\ aws_calls' = Append(aws_calls, Call("copy_object", Contents[obj_index], outcome))
            /\ UNCHANGED obj_index
            /\ CASE outcome = "ok" ->
                      /\ logs_objects' = logs_objects \cup {quarantine_key(Contents[obj_index])}
                      /\ orch_pc' = "tag"
                      /\ UNCHANGED <<remediation_result, results_success>>
                 [] outcome = "ClientError" ->
                      /\ RemediationReturns(Result("error", quarantined_files))
                      /\ UNCHANGED logs_objects
                 [] outcome = "Exception" ->
                      /\ Propagates
                      /\ UNCHANGED logs_objects
    /\ UNCHANGED <<handler_frame, raw_objects, Contents, quarantined_files, response>>
    /\ UNCHANGED <<job_vars, outside_orchestrator>>

\* put_object_tagging on the original and quarantined_files.append.
TagObject ==
    /\ orch_pc = "tag"
    /\ \E outcome \in CallOutcomes :
        /\ aws_calls' = Append(aws_calls,
                               Call("put_object_tagging", Contents[obj_index], outcome))
        /\ CASE outcome = "ok" ->
                  /\ raw_objects' = put_object_tagging(raw_objects, Contents[obj_index])
                  /\ quarantined_files' = Append(quarantined_files, Contents[obj_index])
                  /\ obj_index' = obj_index + 1
                  /\ orch_pc' = "for_obj"
                  /\ UNCHANGED <<remediation_result, results_success>>
             [] outcome = "ClientError" ->
                  /\ RemediationReturns(Result("error", quarantined_files))
                  /\ UNCHANGED <<raw_objects, quarantined_files, obj_index>>
             [] outcome = "Exception" ->
                  /\ Propagates
                  /\ UNCHANGED <<raw_objects, quarantined_files, obj_index>>
    /\ UNCHANGED <<handler_frame, logs_objects, Contents, response>>
    /\ UNCHANGED <<job_vars, outside_orchestrator>>

\* restart_glue_job(GLUE_JOB_NAME): start_job_run on the key claims/; every
\* exception is caught and reported as status error.
RestartGlueJob ==
    /\ orch_pc = "restart_glue_job"
    /\ IF GLUE_JOB_NAME = ""
       THEN /\ RemediationReturns(Result("skipped", <<>>))
            /\ UNCHANGED aws_calls
       ELSE \E outcome \in CallOutcomes :
            /\ aws_calls' = Append(aws_calls, Call("start_job_run", <<"claims", "">>, outcome))
            /\ RemediationReturns(Result(IF outcome = "ok" THEN "success" ELSE "error", <<>>))
    /\ UNCHANGED <<handler_frame, raw_objects, logs_objects, Contents, obj_index,
                   quarantined_files, response>>
    /\ UNCHANGED <<job_vars, outside_orchestrator>>

\* The cost-spike branch up to its log_remediation_action: cost_event is
\* built, results['success'] is not set yet.
CostSpike ==
    /\ orch_pc = "cost_spike"
    /\ remediation_result' = Some(Result("cost_event", <<>>))
    /\ orch_pc' = "log"
    /\ UNCHANGED <<handler_frame, raw_objects, logs_objects, aws_calls, results_success,
                   Contents, obj_index, quarantined_files, response>>
    /\ UNCHANGED <<job_vars, outside_orchestrator>>

\* The name under which the branch of the action logs.
log_name ==
    IF action \in {"quarantine_data", "handle_anomaly_spike"} THEN "quarantine_data"
    ELSE IF action \in {"restart_glue_job", "restart_etl"} THEN "restart_job"
    ELSE "cost_spike_detected"

\* A variant whose put_object is not guarded: a ClientError reaches the
\* handler.
LogRemediationActionUnguarded ==
    /\ orch_pc = "log"
    /\ IF S3_LOGS_BUCKET = ""
       THEN /\ orch_pc' = "notify"
            /\ UNCHANGED <<aws_calls, logs_objects>>
       ELSE \E outcome \in CallOutcomes :
            /\ aws_calls' = Append(aws_calls,
                                   Call("put_object", <<"remediation", log_name>>, outcome))
            /\ logs_objects' = IF outcome = "ok"
                               THEN logs_objects \cup {<<"remediation", log_name>>}
                               ELSE logs_objects
            /\ orch_pc' = IF outcome = "ok" THEN "notify" ELSE "except"
    /\ UNCHANGED <<handler_frame, raw_objects, results_success, remediation_result,
                   Contents, obj_index, quarantined_files, response>>
    /\ UNCHANGED <<job_vars, outside_orchestrator>>

\* log_remediation_action(name, result): nothing without a logs bucket, else
\* put_object under remediation/; a ClientError is logged and swallowed.
LogRemediationAction ==
    /\ orch_pc = "log"
    /\ IF S3_LOGS_BUCKET = ""
       THEN /\ orch_pc' = "notify"
            /\ UNCHANGED <<aws_calls, logs_objects>>
       ELSE \E outcome \in CallOutcomes :
            /\ aws_calls' = Append(aws_calls,
                                   Call("put_object", <<"remediation", log_name>>, outcome))
            /\ logs_objects' = IF outcome = "ok"
                               THEN logs_objects \cup {<<"remediation", log_name>>}
                               ELSE logs_objects
            /\ orch_pc' = IF outcome = "Exception" THEN "except" ELSE "notify"
    /\ UNCHANGED <<handler_frame, raw_objects, results_success, remediation_result,
                   Contents, obj_index, quarantined_files, response>>
    /\ UNCHANGED <<job_vars, outside_orchestrator>>

\* send_notification(subject, message): nothing without a topic, else
\* publish; a ClientError is logged and swallowed.  The cost-spike branch
\* sets results['success'] = True after it.
SendNotification ==
    /\ orch_pc = "notify"
    /\ IF SNS_TOPIC_ARN = ""
       THEN /\ orch_pc' = "respond"
            /\ UNCHANGED aws_calls
       ELSE \E outcome \in CallOutcomes :
            /\ aws_calls' = Append(aws_calls, Call("publish", <<>>, outcome))
            /\ orch_pc' = IF outcome = "Exception" THEN "except" ELSE "respond"
    /\ results_success' =
        IF orch_pc' = "respond" /\ action \in {"handle_cost_spike", "cost_spike"}
        THEN TRUE ELSE results_success
    /\ UNCHANGED <<handler_frame, raw_objects, logs_objects, remediation_result,
                   Contents, obj_index, quarantined_files, response>>
    /\ UNCHANGED <<job_vars, outside_orchestrator>>

\* status_code = 200 if results['success'] else 400; return response
Respond ==
    /\ orch_pc = "respond"
    /\ response' = Some([statusCode |-> IF results_success THEN 200 ELSE 400,
                         success |-> results_success])
    /\ orch_pc' = "returned"
    /\ UNCHANGED <<handler_frame, raw_objects, logs_objects, aws_calls, results_success,
                   remediation_result, Contents, obj_index, quarantined_files>>
    /\ UNCHANGED <<job_vars, outside_orchestrator>>

\* except Exception as e: the response with statusCode 500.
HandleException ==
    /\ orch_pc = "except"
    /\ response' = Some([statusCode |-> 500, success |-> results_success])
    /\ orch_pc' = "returned"
    /\ UNCHANGED <<handler_frame, raw_objects, logs_objects, aws_calls, results_success,
                   remediation_result, Contents, obj_index, quarantined_files>>
    /\ UNCHANGED <<job_vars, outside_orchestrator>>

NextOfOrchestrator ==
    \/ HandlerEntry
    \/ Dispatch
    \/ QuarantineData
    \/ CopyObject
    \/ TagObject
    \/ RestartGlueJob
    \/ CostSpike
    \/ LogRemediationAction
    \/ SendNotification
    \/ Respond
    \/ HandleException

\* One invocation of the orchestrator as deployed.
OrchestratorSpec == OrchestratorInit /\ [][NextOfOrchestrator]_vars

\* ------------------------------------------------------------------------
\* The glue_trigger Lambda
\* ------------------------------------------------------------------------

\* str.startswith(prefix)
startswith(s, prefix) == Len(s) >= Len(prefix) /\ SubSeq(s, 1, Len(prefix)) = prefix

\* The most records an event of the model carries.
MaxRecords == 3

\* A record of an S3 event notification: record['eventName'] and
\* record['s3']['object']['key'].
EventRecords ==
    [eventName : {"ObjectCreated:Put", "ObjectCreated:Copy", "ObjectRemoved:Delete"},
     key : {<<"claims", "a.csv">>, <<"claims", "b.csv">>}]

RECURSIVE RecordLists(_)
\* The lists of at most n records.
RecordLists(n) ==
    IF n = 0 THEN {<<>>}
    ELSE LET shorter == RecordLists(n - 1)
         IN  shorter \cup {Append(l, r) : l \in {x \in shorter : Len(x) = n - 1},
                                          r \in EventRecords}

\* lambda_handler is invoked with an S3 event.
TriggerInvoked ==
    /\ trigger_pc = "idle"
    /\ Records' \in RecordLists(MaxRecords)
    /\ record_index' = 1
    /\ trigger_pc' = "for_record"
    /\ UNCHANGED <<started_runs, trigger_calls, trigger_response, trigger_returned>>
    /\ UNCHANGED <<job_vars, outside_trigger>>

\* The head of the for loop: a record that is no ObjectCreated is passed
\* over.
SkipRecord ==
    /\ trigger_pc = "for_record"
    /\ record_index <= Len(Records)
    /\ ~startswith(Records[record_index].eventName, "ObjectCreated")
    /\ record_index' = record_index + 1
    /\ UNCHANGED <<trigger_pc, Records, started_runs, trigger_calls, trigger_response,
                   trigger_returned>>
    /\ UNCHANGED <<job_vars, outside_trigger>>

\* response = start_glue_job(bucket, key): start_job_run with the key of the
\* record as --S3_INPUT_KEY; an exception reaches except Exception of the
\* handler, which prints and re-raises.
StartGlueJob ==
    /\ trigger_pc = "for_record"
    /\ record_index <= Len(Records)
    /\ startswith(Records[record_index].eventName, "ObjectCreated")
    /\ \E outcome \in CallOutcomes :
        /\ trigger_calls' = Append(trigger_calls,
                                   Call("start_job_run", Records[record_index].key, outcome))
        /\ IF outcome = "ok"
           THEN LET JobRunId == Len(started_runs) + 1
                IN  /\ started_runs' =
                         Append(started_runs, [JobRunId |-> JobRunId,
                                               S3_INPUT_KEY |-> Records[record_index].key])
                    /\ trigger_response' = Some(JobRunId)
                    /\ trigger_pc' = "push_metric"
           ELSE /\ trigger_pc' = "raised"
                /\ UNCHANGED <<started_runs, trigger_response>>
    /\ UNCHANGED <<Records, record_index, trigger_returned>>
    /\ UNCHANGED <<job_vars, outside_trigger>>

\* A variant whose put_metric_data is not guarded.
PushTriggerMetricUnguarded ==
    /\ trigger_pc = "push_metric"
    /\ \E outcome \in CallOutcomes :
        /\ trigger_calls' = Append(trigger_calls,
                                   Call("put_metric_data", Records[record_index].key, outcome))
        /\ trigger_pc' = IF outcome = "ok" THEN "for_record" ELSE "raised"
        /\ record_index' = IF outcome = "ok" THEN record_index + 1 ELSE record_index
    /\ UNCHANGED <<Records, started_runs, trigger_response, trigger_returned>>
    /\ UNCHANGED <<job_vars, outside_trigger>>

\* push_trigger_metric(bucket, key, job_run_id): put_metric_data, every
\* exception caught and printed as a warning.
PushTriggerMetric ==
    /\ trigger_pc = "push_metric"
    /\ \E outcome \in CallOutcomes :
        trigger_calls' = Append(trigger_calls,
                                Call("put_metric_data", Records[record_index].key, outcome))
    /\ record_index' = record_index + 1
    /\ trigger_pc' = "for_record"
    /\ UNCHANGED <<Records, started_runs, trigger_response, trigger_returned>>
    /\ UNCHANGED <<job_vars, outside_trigger>>

\* After the loop: return statusCode 200 with response['JobRunId']; with
\* response never assigned the return statement raises UnboundLocalError.
TriggerReturns ==
    /\ trigger_pc = "for_record"
    /\ record_index > Len(Records)
    /\ IF trigger_response = NULL
       THEN /\ trigger_pc' = "raised"
            /\ UNCHANGED trigger_returned
       ELSE /\ trigger_returned' = Some([statusCode |-> 200,
                                         job_run_id |-> Val(trigger_response)])
            /\ trigger_pc' = "returned"
    /\ UNCHANGED <<Records, record_index, started_runs, trigger_calls, trigger_response>>
    /\ UNCHANGED <<job_vars, outside_trigger>>

NextOfTrigger ==
    \/ TriggerInvoked
    \/ SkipRecord
    \/ StartGlueJob
    \/ PushTriggerMetric
    \/ TriggerReturns

\* One invocation of glue_trigger.
TriggerSpec == Init /\ [][NextOfTrigger]_vars

\* ------------------------------------------------------------------------
\* The cost collector Lambda
\* ------------------------------------------------------------------------

\* Amounts of money are counted in cents.
\* float(os.getenv('COST_THRESHOLD_USD', '50.0'))
COST_THRESHOLD_USD == 5000

\* Amounts Cost Explorer may report for the day.
DailyAmounts == {0, 4999, 5000, 5001, 12000}

\* Responses of get_cost_and_usage: no result, a result grouped by service
\* (its Total carries no amount), and a result with a total.
CostResponses ==
    {[ResultsByTime |-> <<>>]}
        \cup {[ResultsByTime |-> <<[Total |-> NULL, Groups |-> <<a>>]>>] : a \in DailyAmounts}
        \cup {[ResultsByTime |-> <<[Total |-> Some(a), Groups |-> <<>>]>>] : a \in DailyAmounts}

\* parse_cost_data(cost_response): total_cost is the amount of Total, 0.0
\* where there is none; service_costs are the amounts of the groups.
parse_cost_data(cost_response) ==
    IF cost_response.ResultsByTime = <<>>
    THEN [total_cost |-> 0, service_costs |-> <<>>]
    ELSE LET results == cost_response.ResultsByTime[1]
         IN  [total_cost |-> IF results.Total = NULL THEN 0 ELSE Val(results.Total),
              service_costs |-> results.Groups]

\* A variant of the comparison that includes the threshold itself.
reaches_threshold(total_cost) == total_cost >= COST_THRESHOLD_USD

\* cost_data['total_cost'] > COST_THRESHOLD_USD
exceeds_threshold(total_cost) == total_cost > COST_THRESHOLD_USD

\* The Lambda as deployed, with or without a topic.
CollectorInit ==
    /\ JobAtRest
    /\ OrchestratorAtRest
    /\ TriggerAtRest
    /\ alert_topic \in {"", "arn:aws:sns:alerts"}
    /\ CollectorIdle

\* action = event.get('action', 'collect_costs')
CollectorInvoked ==
    /\ collector_pc = "idle"
    /\ \E e \in {[source |-> PyStr("aws.events")]}
                    \cup {[action |-> PyStr(a)] :
                            a \in {"collect_costs", "check_cost_status", "report"}} :
        collector_action' = dict_get(e, "action", PyStr("collect_costs")).value
    /\ collector_pc' = "get_cost"
    /\ UNCHANGED <<alert_topic, cost_data, collector_calls, threshold_exceeded,
                   collector_response>>
    /\ UNCHANGED <<job_vars, outside_collector>>

\* Where an exception of the handler's body goes: the check_cost_status
\* branch has no try, the default branch answers 500.
ExceptionTarget == IF collector_action = "check_cost_status" THEN "raised" ELSE "except"

\* cost_data = parse_cost_data(get_cost_and_usage(...)): on a ClientError
\* the query is made again without grouping and filter, unguarded.
GetCostAndUsage ==
    /\ collector_pc = "get_cost"
    /\ \E outcome \in CallOutcomes, retry \in CallOutcomes, cost_response \in CostResponses :
        LET calls == IF outcome = "ClientError"
                     THEN <<Call("get_cost_and_usage", <<>>, outcome),
                            Call("get_cost_and_usage", <<>>, retry)>>
                     ELSE <<Call("get_cost_and_usage", <<>>, outcome)>>
            answered == calls[Len(calls)].outcome = "ok"
        IN  /\ outcome # "ClientError" => retry = "ok"
            /\ ~answered => cost_response = [ResultsByTime |-> <<>>]
            /\ collector_calls' = collector_calls \o calls
            /\ IF answered
               THEN /\ cost_data' = Some(parse_cost_data(cost_response))
                    /\ collector_pc' = IF collector_action = "check_cost_status"
                                       THEN "status" ELSE "forecast"
               ELSE /\ collector_pc' = ExceptionTarget
                    /\ UNCHANGED cost_data
    /\ UNCHANGED <<alert_topic, collector_action, threshold_exceeded, collector_response>>
    /\ UNCHANGED <<job_vars, outside_collector>>

\* The response of the handler.
CollectorResponse(statusCode, status, exceeded) ==
    [statusCode |-> statusCode, status |-> status, threshold_exceeded |-> exceeded]

\* The check_cost_status branch: status 'high' or 'normal', returned.
ReturnCostStatus ==
    /\ collector_pc = "status"
    /\ collector_response' =
        Some(CollectorResponse(200, IF exceeds_threshold(Val(cost_data).total_cost)
                                    THEN "high" ELSE "normal", NULL))
    /\ collector_pc' = "returned"
    /\ UNCHANGED <<alert_topic, collector_action, cost_data, collector_calls,
                   threshold_exceeded>>
    /\ UNCHANGED <<job_vars, outside_collector>>

\* The forecast, optional: get_cost_forecast, whatever it raises is caught.
GetCostForecast ==
    /\ collector_pc = "forecast"
    /\ \E outcome \in CallOutcomes :
        collector_calls' = Append(collector_calls, Call("get_cost_forecast", <<>>, outcome))
    /\ collector_pc' = "push"
    /\ UNCHANGED <<alert_topic, collector_action, cost_data, threshold_exceeded,
                   collector_response>>
    /\ UNCHANGED <<job_vars, outside_collector>>

\* push_cost_metrics_to_cloudwatch(cost_data): put_metric_data, a
\* ClientError printed and swallowed.
PushCostMetrics ==
    /\ collector_pc = "push"
    /\ \E outcome \in CallOutcomes :
        /\ collector_calls' = Append(collector_calls, Call("put_metric_data", <<>>, outcome))
        /\ collector_pc' = IF outcome = "Exception" THEN "except" ELSE "check"
    /\ UNCHANGED <<alert_topic, collector_action, cost_data, threshold_exceeded,
                   collector_response>>
    /\ UNCHANGED <<job_vars, outside_collector>>

\* check_cost_threshold(cost_data): the comparison; at or below the
\* threshold it returns False at once.
CheckCostThreshold ==
    /\ collector_pc = "check"
    /\ IF exceeds_threshold(Val(cost_data).total_cost)
       THEN /\ collector_pc' = "put_events"
            /\ UNCHANGED threshold_exceeded
       ELSE /\ threshold_exceeded' = Some(FALSE)
            /\ collector_pc' = "return"
    /\ UNCHANGED <<alert_topic, collector_action, cost_data, collector_calls,
                   collector_response>>
    /\ UNCHANGED <<job_vars, outside_collector>>

\* check_cost_threshold: events_client.put_events; a ClientError is printed
\* and the function returns True; without a topic it returns True after
\* the event.
PutEvents ==
    /\ collector_pc = "put_events"
    /\ \E outcome \in CallOutcomes :
        /\ collector_calls' = Append(collector_calls, Call("put_events", <<>>, outcome))
        /\ CASE outcome = "ok" /\ alert_topic # "" ->
                  /\ collector_pc' = "publish"
                  /\ UNCHANGED threshold_exceeded
             [] outcome = "ok" /\ alert_topic = "" ->
                  /\ threshold_exceeded' = Some(TRUE)
                  /\ collector_pc' = "return"
             [] outcome = "ClientError" ->
                  /\ threshold_exceeded' = Some(TRUE)
                  /\ collector_pc' = "return"
             [] outcome = "Exception" ->
                  /\ collector_pc' = "except"
                  /\ UNCHANGED threshold_exceeded
    /\ UNCHANGED <<alert_topic, collector_action, cost_data, collector_response>>
    /\ UNCHANGED <<job_vars, outside_collector>>

\* check_cost_threshold: sns_client.publish, in the same try.
PublishAlert ==
    /\ collector_pc = "publish"
    /\ \E outcome \in CallOutcomes :
        /\ collector_calls' = Append(collector_calls, Call("publish", <<>>, outcome))
        /\ IF outcome = "Exception"
           THEN /\ collector_pc' = "except"
                /\ UNCHANGED threshold_exceeded
           ELSE /\ threshold_exceeded' = Some(TRUE)
                /\ collector_pc' = "return"
    /\ UNCHANGED <<alert_topic, collector_action, cost_data, collector_response>>
    /\ UNCHANGED <<job_vars, outside_collector>>

\* return statusCode 200 with threshold_exceeded
CollectorReturns ==
    /\ collector_pc = "return"
    /\ collector_response' = Some(CollectorResponse(200, "Cost collection completed",
                                                    threshold_exceeded))
    /\ collector_pc' = "returned"
    /\ UNCHANGED <<alert_topic, collector_action, cost_data, collector_calls,
                   threshold_exceeded>>
    /\ UNCHANGED <<job_vars, outside_collector>>

\* except Exception as e: return statusCode 500
CollectorFails ==
    /\ collector_pc = "except"
    /\ collector_response' = Some(CollectorResponse(500, "error", NULL))
    /\ collector_pc' = "returned"
    /\ UNCHANGED <<alert_topic, collector_action, cost_data, collector_calls,
                   threshold_exceeded>>
    /\ UNCHANGED <<job_vars, outside_collector>>

NextOfCollector ==
    \/ CollectorInvoked
    \/ GetCostAndUsage
    \/ ReturnCostStatus
    \/ GetCostForecast
    \/ PushCostMetrics
    \/ CheckCostThreshold
    \/ PutEvents
    \/ PublishAlert
    \/ CollectorReturns
    \/ CollectorFails

\* One invocation of the cost collector as deployed.
CollectorSpec == CollectorInit /\ [][NextOfCollector]_vars

\* ------------------------------------------------------------------------
\* Properties
\* ------------------------------------------------------------------------

Range(s) == {s[i] : i \in 1..Len(s)}

\* The steps after the tier DataFrames were prepared.
AfterOutputs ==
    {"write_gold", "write_silver", "write_quarantine", "metrics", "push", "commit", "done"}

TiersReady == pc \in AfterOutputs
Validated == pc \in {"detect", "outputs"} \cup AfterOutputs
Detected == pc \in {"outputs"} \cup AfterOutputs

RawIds == {raw_claims_df[i].claim_id : i \in 1..Len(raw_claims_df)}
GoldIds == {gold_claims[i].claim_id : i \in 1..Len(gold_claims)}
SilverIds == {silver_claims[i].row.claim_id : i \in 1..Len(silver_claims)}
QuarantineIds == {quarantine_claims[i].row.claim_id : i \in 1..Len(quarantine_claims)}

\* The claim_ids the detector flagged.
FlaggedIds ==
    {claims_with_outliers[i].row.claim_id :
        i \in {j \in 1..Len(claims_with_outliers) :
                 IsTrue(claims_with_outliers[j].is_statistical_outlier)}}

\* C1: every input claim is in exactly one of the tiers GOLD, SILVER and
\* QUARANTINE (none in two, none lost, none twice), and the reported counts
\* add up: gold_records + silver_records + quarantine_records = total_records,
\* the number of input claims.
C1_TiersPartitionBatch ==
    /\ TiersReady =>
        /\ GoldIds \cup SilverIds \cup QuarantineIds = RawIds
        /\ GoldIds \cap SilverIds = {}
        /\ GoldIds \cap QuarantineIds = {}
        /\ SilverIds \cap QuarantineIds = {}
        /\ Len(gold_claims) + Len(silver_claims) + Len(quarantine_claims)
             = Len(raw_claims_df)
    /\ pc = "done" =>
        /\ Val(dq_metrics).gold_records + Val(dq_metrics).silver_records
             + Val(dq_metrics).quarantine_records = Val(dq_metrics).total_records
        /\ Val(dq_metrics).total_records = Len(raw_claims_df)

C1_Witness ==
    /\ pc = "done"
    /\ GoldIds # {}
    /\ SilverIds # {}
    /\ QuarantineIds # {}

\* C2: the tier is a function of the validator's and the detector's results:
\* a claim with an issue code is SILVER whatever its amount, a claim without
\* one is QUARANTINE when flagged as an outlier and GOLD when not; so SILVER
\* records carry a non-empty issue list, GOLD and QUARANTINE records none.
C2_TierFromIssuesAndOutlierFlag ==
    TiersReady =>
        /\ \A i \in 1..Len(raw_claims_df) :
            LET r == raw_claims_df[i]
                clean == dq_issues_of(r) = <<>>
                flagged == r.claim_id \in FlaggedIds
            IN  /\ r.claim_id \in SilverIds <=> ~clean
                /\ r.claim_id \in QuarantineIds <=> clean /\ flagged
                /\ r.claim_id \in GoldIds <=> clean /\ ~flagged
        /\ \A i \in 1..Len(silver_claims) :
            /\ silver_claims[i].dq_issues # <<>>
            /\ silver_claims[i].dq_issues = dq_issues_of(silver_claims[i].row)

C2_Witness ==
    /\ TiersReady
    /\ GoldIds # {}
    /\ QuarantineIds # {}
    /\ \E i \in 1..Len(silver_claims) :
        /\ silver_claims[i].row.claim_amount = Some(500)
        /\ silver_claims[i].dq_issues = <<"INVALID_STATUS;">>

\* C3: rule accumulation is additive: the issue list of a record holds the
\* code of every catalogue rule whose condition is true for it, not only the
\* first true rule of a chain.
C3_EveryTrueRuleRecorded ==
    Validated =>
        \A i \in 1..Len(dq_failures) :
            \A k \in 1..Len(RuleCatalogue(dq_failures[i].row)) :
                IsTrue(RuleCatalogue(dq_failures[i].row)[k][2])
                    => RuleCatalogue(dq_failures[i].row)[k][1]
                         \in Range(dq_failures[i].dq_issues)

\* C4: a claim with a missing field (an absent claim_status, patient_gender,
\* patient_zip, service_date or submission_date included) gets at least one
\* issue code and the tier SILVER, never GOLD or QUARANTINE.
C4_MissingFieldIsSilver ==
    TiersReady =>
        \A i \in 1..Len(raw_claims_df) :
            (\E f \in Fields : IsNullValue(raw_claims_df[i][f]))
                => /\ raw_claims_df[i].claim_id \in SilverIds
                   /\ raw_claims_df[i].claim_id \notin GoldIds \cup QuarantineIds

\* The date rules that read a date the record lacks.
DateCodesOwed(r) ==
    (IF IsNullValue(r.service_date) THEN {"FUTURE_SERVICE_DATE;"} ELSE {})
    \cup (IF IsNullValue(r.service_date) \/ IsNullValue(r.submission_date)
          THEN {"LATE_SUBMISSION;", "SUBMISSION_BEFORE_SERVICE;"} ELSE {})

\* C5: a claim whose service_date or submission_date is unparsable (NULL) is
\* flagged by every date rule that reads that date, and is therefore among
\* the DQ failures.
C5_NullDateFlagged ==
    Validated =>
        \A i \in 1..Len(raw_claims_df) :
            DateCodesOwed(raw_claims_df[i]) # {}
                => \E j \in 1..Len(dq_failures) :
                     /\ dq_failures[j].row.claim_id = raw_claims_df[i].claim_id
                     /\ DateCodesOwed(raw_claims_df[i]) \subseteq Range(dq_failures[j].dq_issues)

\* What the detector reports of each row it scored.
ScoresOf(cwo) ==
    {[claim_id |-> cwo[j].row.claim_id, z_score |-> cwo[j].z_score,
      outlier |-> cwo[j].is_statistical_outlier] : j \in 1..Len(cwo)}

\* The scores the job gives the rows of file b.
PipelineScores(b) == ScoresOf(detect_statistical_anomalies(validate_clean(b)))

\* The rows of the file that fail validation.
DefectiveIdx(b) == {i \in 1..Len(b) : dq_issues_of(b[i]) # <<>>}

\* File b with row i taken out.
Without(b, i) == [j \in 1..(Len(b) - 1) |-> IF j < i THEN b[j] ELSE b[j + 1]]

\* File b with row i removed, with one more record like row i, or with a
\* changed amount in row i that leaves row i failing validation.
Variations(b, i) ==
    {Without(b, i), Append(b, [b[i] EXCEPT !.claim_id = Len(b) + 1])}
    \cup {c \in {[b EXCEPT ![i].claim_amount = Some(a)] : a \in {50, 400}} :
            dq_issues_of(c[i]) # <<>>}

\* C6: the detector sees rule-clean claims only: with the amount of a SILVER
\* claim changed, or a SILVER claim removed or added (the claim SILVER before
\* and after), every other claim keeps its z-score, its outlier flag and so
\* its GOLD or QUARANTINE tier.
C6_SilverClaimsDoNotMoveScores ==
    Detected =>
        \A i \in DefectiveIdx(raw_claims_df) :
            \A b \in Variations(raw_claims_df, i) :
                LET cwo == detect_statistical_anomalies(validate_clean(b))
                IN  /\ ScoresOf(cwo) = ScoresOf(claims_with_outliers)
                    /\ TiersReady =>
                        /\ Range(gold_of(cwo)) = Range(gold_claims)
                        /\ Range(quarantine_of(outliers_of(cwo))) = Range(quarantine_claims)

C6_Witness ==
    /\ Detected
    /\ FlaggedIds # {}
    /\ \E i \in DefectiveIdx(raw_claims_df) :
        /\ raw_claims_df[i].claim_amount = Some(500)
        /\ \E j \in 1..Len(statistical_outliers) :
            statistical_outliers[j].row.cpt_code = raw_claims_df[i].cpt_code

\* The amounts of the rule-clean claims of a procedure code.
CleanAmounts(c) ==
    {clean_claims[j].claim_amount :
        j \in {k \in 1..Len(clean_claims) : clean_claims[k].cpt_code = c}}

\* C7: in a group whose rule-clean amounts are all the same (a group of one
\* included) every member gets z_score 0 and none is flagged; no score is a
\* quotient by zero.
C7_ZeroVarianceGuard ==
    Detected =>
        \A i \in 1..Len(claims_with_outliers) :
            /\ ~IsNullValue(claims_with_outliers[i].z_score)
            /\ Val(claims_with_outliers[i].z_score).den # FixZero
            /\ Cardinality(CleanAmounts(claims_with_outliers[i].row.cpt_code)) = 1
                 => /\ claims_with_outliers[i].z_score = Some(z_zero)
                    /\ claims_with_outliers[i].is_statistical_outlier = SQL_FALSE

C7_Witness ==
    /\ Detected
    /\ \E i, j \in 1..Len(claims_with_outliers) :
        /\ i # j
        /\ claims_with_outliers[i].row.cpt_code = claims_with_outliers[j].row.cpt_code
        /\ Cardinality(CleanAmounts(claims_with_outliers[i].row.cpt_code)) = 1
    /\ \E i \in 1..Len(claims_with_outliers) : claims_with_outliers[i].stats.count = 1

\* The amounts, in file order, of the rule-clean claims of a procedure code.
CleanAmountSeq(c) ==
    LET rows == SelectRows(clean_claims, c)
    IN  SubSeq([j \in 1..Len(rows) |-> Val(rows[j].claim_amount)], 1, Len(rows))

\* C8: a rule-clean claim of a group with stddev > 0 is flagged exactly when
\* |claim_amount - mean| > 3 * stddev, mean and sample standard deviation
\* taken over all rule-clean claims of its cpt_code in the batch, itself
\* included; |z| = 3 is not an outlier.
C8_OutlierIffBeyondThreeSigma ==
    pc = "outputs" =>
        \A c \in {clean_claims[k].cpt_code : k \in 1..Len(clean_claims)} :
            LET xs == CleanAmountSeq(c)
                m == Moments(xs)
            IN  (Len(xs) >= 2 /\ Cardinality(Range(xs)) > 1)
                    => \A i \in 1..Len(claims_with_outliers) :
                        claims_with_outliers[i].row.cpt_code = c
                            => /\ ~IsNullValue(claims_with_outliers[i].is_statistical_outlier)
                               /\ IsTrue(claims_with_outliers[i].is_statistical_outlier)
                                    <=> BeyondThreeSigma(
                                            Val(claims_with_outliers[i].row.claim_amount), m)

C8_Witness ==
    /\ pc = "outputs"
    /\ \E i \in 1..Len(claims_with_outliers) :
        /\ IsTrue(claims_with_outliers[i].is_statistical_outlier)
        /\ IsTrue(stddev_positive(claims_with_outliers[i].stats))

\* 2^-40
Tolerance == AddBit(FixZero, FracLimbs * LimbBits - 40)

\* |x - y| <= 2^-40
Near(x, y) == FixLeq(x, FixAdd(y, Tolerance)) /\ FixLeq(y, FixAdd(x, Tolerance))

\* x is a / b up to the rounding of double arithmetic.
NearQuotient(x, a, b) ==
    /\ FixLeq(x, FixAdd(FixQuot(a, b).limbs, Tolerance))
    /\ FixLeq(FixQuot(a, b).limbs, FixAdd(x, Tolerance))

IsPercentage(x) == FixLeq(FixZero, x) /\ FixLeq(x, float_of_int(100))

\* data_quality_score + 100 * (silver_records + quarantine_records) /
\* total_records, as Python evaluates it.
ScorePlusAnomalyShare(m) ==
    float_add(m.data_quality_score,
              float_div(100 * (m.silver_records + m.quarantine_records), m.total_records))

\* C10 as stated: both percentages lie in [0, 100] and, for a non-empty
\* batch, data_quality_score + 100 * (silver_records + quarantine_records) /
\* total_records == 100.
C10_ExactlySumConsistent ==
    pc = "done" =>
        /\ IsPercentage(Val(dq_metrics).data_quality_score)
        /\ IsPercentage(Val(dq_metrics).anomaly_rate)
        /\ Val(dq_metrics).total_records > 0
             => ScorePlusAnomalyShare(Val(dq_metrics)) = float_of_int(100)

\* C10, amended: both percentages lie in [0, 100] and, for a non-empty batch,
\* data_quality_score + 100 * (silver_records + quarantine_records) /
\* total_records is 100 up to the rounding of double arithmetic (to within
\* 2^-40).
C10_SumConsistentUpToRounding ==
    pc = "done" =>
        /\ IsPercentage(Val(dq_metrics).data_quality_score)
        /\ IsPercentage(Val(dq_metrics).anomaly_rate)
        /\ Val(dq_metrics).total_records > 0
             => Near(ScorePlusAnomalyShare(Val(dq_metrics)), float_of_int(100))

C10_Witness ==
    /\ pc = "done"
    /\ Val(dq_metrics).total_records > 0
    /\ ScorePlusAnomalyShare(Val(dq_metrics)) # float_of_int(100)

\* What validation makes of each row of file b: its claim_id and the issue
\* list it is given (empty for a row handed on as clean).
Outcomes(b) ==
    LET failed == validate_failures(b)
        clean == validate_clean(b)
    IN  {<<failed[j].row.claim_id, failed[j].dq_issues>> : j \in 1..Len(failed)}
        \cup {<<clean[j].claim_id, <<>>>> : j \in 1..Len(clean)}

\* The outcomes the run holds in clean_claims and dq_failures.
OutcomesHeld ==
    {<<dq_failures[j].row.claim_id, dq_failures[j].dq_issues>> : j \in 1..Len(dq_failures)}
    \cup {<<clean_claims[j].claim_id, <<>>>> : j \in 1..Len(clean_claims)}

Reverse(b) == [i \in 1..Len(b) |-> b[Len(b) + 1 - i]]

\* The rows of b at the odd (parity 1) or even (parity 0) places.
EveryOther(b, parity) ==
    [j \in 1..((Len(b) + parity) \div 2) |-> b[2 * j - parity]]

\* C11: rule validation is batch-independent: a claim's issue list, and so
\* whether it is SILVER, is the same when the file is validated again, when
\* the claim is validated alone, when the file is split into partitions (a
\* head and a tail at any place, or alternate rows) and when the rows are in
\* reverse order.
C11_IssuesDependOnClaimOnly ==
    pc = "detect" =>
        /\ Cardinality(OutcomesHeld) = Len(raw_claims_df)
        /\ Outcomes(raw_claims_df) = OutcomesHeld
        /\ Outcomes(Reverse(raw_claims_df)) = OutcomesHeld
        /\ Outcomes(EveryOther(raw_claims_df, 1)) \cup Outcomes(EveryOther(raw_claims_df, 0))
             = OutcomesHeld
        /\ \A k \in 0..Len(raw_claims_df) :
            Outcomes(SubSeq(raw_claims_df, 1, k))
                \cup Outcomes(SubSeq(raw_claims_df, k + 1, Len(raw_claims_df)))
              = OutcomesHeld
        /\ \A i \in 1..Len(raw_claims_df) : Outcomes(<<raw_claims_df[i]>>) \subseteq OutcomesHeld

C11_Witness ==
    /\ pc = "detect"
    /\ Len(dq_failures) = 2
    /\ dq_failures[1].dq_issues # dq_failures[2].dq_issues
    /\ Len(clean_claims) >= 2

\* The codes of the catalogue, in its order.
CatalogueCodes == [k \in 1..Len(RuleCatalogue(BaseClaim)) |-> RuleCatalogue(BaseClaim)[k][1]]

\* The place of a code in the catalogue.
CataloguePlace(code) == CHOOSE k \in 1..Len(CatalogueCodes) : CatalogueCodes[k] = code

\* C12: the dq_issues of a SILVER record holds catalogue codes only, in the
\* order of the catalogue: a code earlier in the catalogue never comes after
\* a later one, and no code comes twice.
C12_IssuesInCatalogueOrder ==
    TiersReady =>
        \A i \in 1..Len(silver_claims) :
            /\ Range(silver_claims[i].dq_issues) \subseteq Range(CatalogueCodes)
            /\ \A a, b \in 1..Len(silver_claims[i].dq_issues) :
                a < b => CataloguePlace(silver_claims[i].dq_issues[a])
                           < CataloguePlace(silver_claims[i].dq_issues[b])

C12_Witness ==
    /\ TiersReady
    /\ \E i \in 1..Len(silver_claims) :
        silver_claims[i].dq_issues = <<"NEGATIVE_AMOUNT;", "FUTURE_SERVICE_DATE;">>

\* The issue list the run holds for a claim: empty unless it is among the
\* DQ failures.
RecordedIssues(id) ==
    LET js == {j \in 1..Len(dq_failures) : dq_failures[j].row.claim_id = id}
    IN  IF js = {} THEN <<>> ELSE dq_failures[CHOOSE j \in js : TRUE].dq_issues

\* C15: every claim whose patient_zip does not match the 5-digit or
\* 5+4-digit pattern (an absent patient_zip matches nothing) gets the
\* INVALID_ZIP code and is among the DQ failures.
C15_BadZipIsInvalidZip ==
    Validated =>
        \A i \in 1..Len(raw_claims_df) :
            (IsNullValue(raw_claims_df[i].patient_zip)
                \/ ~MatchesZip(Val(raw_claims_df[i].patient_zip)))
              => "INVALID_ZIP;" \in Range(RecordedIssues(raw_claims_df[i].claim_id))

\* Days from service to submission, for a record that has both dates.
DaysToSubmission(r) == Val(r.submission_date) - Val(r.service_date)

HasBothDates(r) == ~IsNullValue(r.service_date) /\ ~IsNullValue(r.submission_date)

\* C16: the threshold rules are strict at their boundaries: an amount of
\* exactly 0 is not NEGATIVE_AMOUNT, exactly 100000 not EXCESSIVE_AMOUNT, a
\* service_date equal to the current date not FUTURE_SERVICE_DATE, a
\* submission exactly 365 days after service not LATE_SUBMISSION, a
\* submission_date equal to service_date not SUBMISSION_BEFORE_SERVICE; one
\* step beyond each boundary the record is flagged: with the rule's own code,
\* or for the later date rules with the code of the date rule before it in
\* the chain.
C16_StrictAtBoundaries ==
    Validated =>
        \A i \in 1..Len(raw_claims_df) :
            LET r == raw_claims_df[i]
                codes == Range(RecordedIssues(r.claim_id))
            IN  /\ r.claim_amount = Some(min_claim_amount) => "NEGATIVE_AMOUNT;" \notin codes
                /\ r.claim_amount = Some(max_claim_amount) => "EXCESSIVE_AMOUNT;" \notin codes
                /\ r.service_date = Some(current_date) => "FUTURE_SERVICE_DATE;" \notin codes
                /\ (HasBothDates(r) /\ DaysToSubmission(r) = max_days_to_submission)
                     => "LATE_SUBMISSION;" \notin codes
                /\ (HasBothDates(r) /\ DaysToSubmission(r) = 0)
                     => "SUBMISSION_BEFORE_SERVICE;" \notin codes
                /\ r.claim_amount = Some(min_claim_amount - 1) => "NEGATIVE_AMOUNT;" \in codes
                /\ r.claim_amount = Some(max_claim_amount + 1) => "EXCESSIVE_AMOUNT;" \in codes
                /\ r.service_date = Some(current_date + 1) => "FUTURE_SERVICE_DATE;" \in codes
                /\ (HasBothDates(r) /\ DaysToSubmission(r) = max_days_to_submission + 1)
                     => codes \cap {"LATE_SUBMISSION;", "FUTURE_SERVICE_DATE;"} # {}
                /\ (HasBothDates(r) /\ DaysToSubmission(r) = -1)
                     => codes \cap {"SUBMISSION_BEFORE_SERVICE;", "FUTURE_SERVICE_DATE;"} # {}

C16_Witness ==
    /\ pc = "detect"
    /\ \E i \in 1..Len(clean_claims) :
        /\ clean_claims[i].claim_amount = Some(min_claim_amount)
        /\ HasBothDates(clean_claims[i])
        /\ DaysToSubmission(clean_claims[i]) = max_days_to_submission

\* The catalogue rules a record breaks, an absent value counted as not
\* matching, not listed and not valid.
CatalogueDefects(r) ==
    {RuleCatalogue(r)[k][1] :
        k \in {j \in 1..Len(RuleCatalogue(r)) : IsTrue(RuleCatalogue(r)[j][2])}}
    \cup (IF IsNullValue(r.provider_npi) THEN {"INVALID_NPI;"} ELSE {})
    \cup (IF IsNullValue(r.claim_status) THEN {"INVALID_STATUS;"} ELSE {})
    \cup (IF IsNullValue(r.patient_gender) THEN {"INVALID_GENDER;"} ELSE {})
    \cup (IF IsNullValue(r.patient_zip) THEN {"INVALID_ZIP;"} ELSE {})
    \cup DateCodesOwed(r)

\* C17: a claim whose only defect is one catalogue condition gets exactly
\* that one issue code (and so is among the DQ failures).
C17_SingleDefectExactlyOneCode ==
    Validated =>
        \A i \in 1..Len(raw_claims_df) :
            Cardinality(CatalogueDefects(raw_claims_df[i])) = 1
                => /\ Len(RecordedIssues(raw_claims_df[i].claim_id)) = 1
                   /\ Range(RecordedIssues(raw_claims_df[i].claim_id))
                        = CatalogueDefects(raw_claims_df[i])

\* The rule-clean claims of procedure code c are a hundred claims within 50
\* of 300 and one claim at 50000.
IsExtremeClaimGroup(c) ==
    LET xs == CleanAmountSeq(c)
    IN  /\ Len(xs) = 101
        /\ Cardinality({j \in 1..101 : xs[j] = 50000}) = 1
        /\ \A j \in 1..101 : xs[j] # 50000 => (250 <= xs[j] /\ xs[j] <= 350)

\* |z| > 3 read off a z_score value.
AbsAboveThree(z) == ~FixLeq(Val(z).num, FixMulNat(Val(z).den, 9))

\* C18: in a cpt_code group of 100 rule-clean claims close to 300 plus one
\* rule-clean claim at 50000, the 50000 claim has |z| > 3 and is QUARANTINE,
\* and each other claim has |z| <= 3 and is GOLD.
C18_ExtremeClaimQuarantined ==
    TiersReady =>
        \A c \in {clean_claims[k].cpt_code : k \in 1..Len(clean_claims)} :
            IsExtremeClaimGroup(c) =>
                \A i \in 1..Len(claims_with_outliers) :
                    LET r == claims_with_outliers[i].row
                        z == claims_with_outliers[i].z_score
                    IN  r.cpt_code = c =>
                            /\ ~IsNullValue(z)
                            /\ IF r.claim_amount = Some(50000)
                               THEN /\ AbsAboveThree(z)
                                    /\ r.claim_id \in QuarantineIds
                                    /\ r.claim_id \notin GoldIds \cup SilverIds
                               ELSE /\ ~AbsAboveThree(z)
                                    /\ r.claim_id \in GoldIds
                                    /\ r.claim_id \notin QuarantineIds \cup SilverIds

C18_Witness ==
    /\ pc = "done"
    /\ IsExtremeClaimGroup(Some("99213"))
    /\ Cardinality(QuarantineIds) = 1
    /\ Cardinality(GoldIds) = 100
    /\ Cardinality(Range(CleanAmountSeq(Some("99213")))) > 2

\* The stats row st is the aggregate of exactly the amounts of moments m:
\* the same count, the same mean and the same sample variance.
IsAggregateOf(st, m) ==
    /\ st.count = m.cnt
    /\ st.n = m.cnt
    /\ st.n * st.origin + st.s = m.sum
    /\ VarNum(st) = FixSub(BigMul(m.squares, m.cnt), BigSquare(m.sum))

\* C14: the statistics are complete before any claim is scored: every scored
\* claim carries the aggregate over all rule-clean claims of its cpt_code,
\* its z_score is the one taken against that aggregate, and all claims of a
\* group carry the same aggregate.
C14_ScoredAgainstCompleteGroup ==
    pc = "outputs" =>
        \A c \in {clean_claims[k].cpt_code : k \in 1..Len(clean_claims)} :
            LET m == Moments(CleanAmountSeq(c))
            IN  \A i \in 1..Len(claims_with_outliers) :
                    claims_with_outliers[i].row.cpt_code = c =>
                        /\ IsAggregateOf(claims_with_outliers[i].stats, m)
                        /\ claims_with_outliers[i].z_score
                             = z_score(claims_with_outliers[i].row,
                                       claims_with_outliers[i].stats)
                        /\ \A j \in 1..Len(claims_with_outliers) :
                             claims_with_outliers[j].row.cpt_code = c
                                => claims_with_outliers[j].stats
                                     = claims_with_outliers[i].stats

C14_Witness ==
    /\ pc = "outputs"
    /\ \E i, j \in 1..Len(claims_with_outliers) :
        /\ i + 1 < j
        /\ claims_with_outliers[i].row.cpt_code = claims_with_outliers[j].row.cpt_code
        /\ claims_with_outliers[i].row.claim_amount
             # claims_with_outliers[j].row.claim_amount
        /\ IsTrue(claims_with_outliers[j].is_statistical_outlier)

\* The tiers and the metrics of a run that finds nothing but file.
OutcomeOfFileAlone(file) ==
    LET clean == validate_clean(file)
        failed == validate_failures(file)
        cwo == detect_statistical_anomalies(clean)
        out == outliers_of(cwo)
    IN  [gold |-> gold_of(cwo),
         silver |-> silver_of(failed),
         quarantine |-> quarantine_of(out),
         metrics |-> Some(calculate_dq_metrics(Len(file), Len(clean), Len(failed),
                                               Len(out)))]

\* C19: nothing is carried across batches: whatever files were processed
\* before and whatever they left in the buckets, the tiers and the metrics of
\* a run are those of its own file alone, statistics included.
C19_NothingCarriedAcrossRuns ==
    pc = "done" =>
        /\ [gold |-> gold_claims, silver |-> silver_claims,
            quarantine |-> quarantine_claims, metrics |-> dq_metrics]
             = OutcomeOfFileAlone(raw_bucket[S3_INPUT_KEY])
        /\ \A i \in 1..Len(claims_with_outliers) :
             IsAggregateOf(claims_with_outliers[i].stats,
                           Moments(Amounts(SelectRows(
                               validate_clean(raw_bucket[S3_INPUT_KEY]),
                               claims_with_outliers[i].row.cpt_code))))

C19_Witness ==
    /\ pc = "done"
    /\ job_runs >= 2
    /\ FlaggedIds # {}
    /\ Len(processed_bucket.gold) >= 2
    /\ \E k \in 1..(S3_INPUT_KEY - 1) :
        /\ raw_bucket[k] # <<>>
        /\ raw_bucket[k] # raw_bucket[S3_INPUT_KEY]
        /\ \E i \in 1..Len(raw_bucket[k]) :
            raw_bucket[k][i].cpt_code = raw_bucket[S3_INPUT_KEY][1].cpt_code

\* A threshold is missing, is no number, or the amount bounds are the wrong
\* way round.
Malformed(thresholds) ==
    \/ ~(ThresholdKeys \subseteq DOMAIN thresholds)
    \/ \E k \in ThresholdKeys : IsNullValue(thresholds[k])
    \/ Val(thresholds.min_claim_amount) > Val(thresholds.max_claim_amount)

C20_PandasAgreesWithGlue ==
    pc = "done" =>
        LET local == pandas_main(raw_claims_df)
        IN  /\ local.clean_df = clean_claims
            /\ {local.anomaly_df[k].row.claim_id : k \in 1..Len(local.anomaly_df)}
                 = SilverIds
            /\ local.metrics.data_quality_score = Val(dq_metrics).data_quality_score
            /\ local.metrics.anomaly_rate = Val(dq_metrics).anomaly_rate

\* No column of the row is NULL.
AllFieldsPresent(r) == \A f \in Fields : ~IsNullValue(r[f])

\* The catalogue rules whose condition is TRUE for the row.
TrueRules(r) == {k \in 1..Len(RuleCatalogue(r)) : IsTrue(RuleCatalogue(r)[k][2])}

\* C21: the first-match chains change which codes are recorded, never the
\* split: a claim with all fields non-null is among the DQ failures, with a
\* non-empty dq_issues, exactly when at least one rule condition is true for
\* it, and is rule-clean otherwise.
C21_ChainsKeepTheSplit ==
    pc = "detect" =>
        \A i \in 1..Len(raw_claims_df) :
            LET r == raw_claims_df[i]
            IN  AllFieldsPresent(r) =>
                    /\ (TrueRules(r) # {}) <=> (RecordedIssues(r.claim_id) # <<>>)
                    /\ (TrueRules(r) = {})
                         <=> (\E j \in 1..Len(clean_claims) :
                                clean_claims[j].claim_id = r.claim_id)

C21_Witness ==
    /\ pc = "detect"
    /\ \E i \in 1..Len(raw_claims_df) :
        LET r == raw_claims_df[i]
        IN  /\ AllFieldsPresent(r)
            /\ Cardinality(TrueRules(r)) > Len(RecordedIssues(r.claim_id))
            /\ RecordedIssues(r.claim_id) # <<>>

\* The codes hold both codes of a pair that excludes itself.
HoldsExclusivePair(codes) ==
    \/ {"NEGATIVE_AMOUNT;", "EXCESSIVE_AMOUNT;"} \subseteq codes
    \/ {"LATE_SUBMISSION;", "SUBMISSION_BEFORE_SERVICE;"} \subseteq codes

\* C29: no claim carries both NEGATIVE_AMOUNT and EXCESSIVE_AMOUNT, or both
\* LATE_SUBMISSION and SUBMISSION_BEFORE_SERVICE, in the job or in the
\* pandas pipeline.
C29_ExclusiveCodes ==
    pc = "detect" =>
        \A i \in 1..Len(raw_claims_df) :
            /\ ~HoldsExclusivePair(Range(RecordedIssues(raw_claims_df[i].claim_id)))
            /\ ~HoldsExclusivePair(Range(pandas_dq_issues(raw_claims_df[i])))

C29_Witness ==
    /\ pc = "detect"
    /\ \E i \in 1..Len(raw_claims_df) :
        /\ {"NEGATIVE_AMOUNT;", "LATE_SUBMISSION;"}
             \subseteq Range(RecordedIssues(raw_claims_df[i].claim_id))
        /\ {"NEGATIVE_AMOUNT;", "LATE_SUBMISSION;"}
             \subseteq Range(pandas_dq_issues(raw_claims_df[i]))

\* C28: with the sample standard deviation no claim of a cpt_code group of 10
\* or fewer rule-clean claims has |z| > 3: the job flags none of them and
\* quarantines none, and the pandas pipeline flags none either.
C28_SmallGroupsHoldNoOutlier ==
    TiersReady =>
        /\ \A c \in {clean_claims[k].cpt_code : k \in 1..Len(clean_claims)} :
            Len(CleanAmountSeq(c)) <= 10 =>
                \A i \in 1..Len(claims_with_outliers) :
                    claims_with_outliers[i].row.cpt_code = c =>
                        /\ ~IsNullValue(claims_with_outliers[i].z_score)
                        /\ ~AbsAboveThree(claims_with_outliers[i].z_score)
                        /\ claims_with_outliers[i].is_statistical_outlier = SQL_FALSE
                        /\ claims_with_outliers[i].row.claim_id \notin QuarantineIds
        /\ LET local == pandas_clean_df(raw_claims_df)
           IN  \A c \in {local[k].cpt_code : k \in 1..Len(local)} :
                 LET m == pandas_stats(local, c)
                 IN  m.cnt <= 10 =>
                        \A i \in 1..Len(local) :
                            local[i].cpt_code = c
                                => ~pandas_is_statistical_outlier(local[i], m)

C28_Witness ==
    /\ pc = "done"
    /\ \E c \in {clean_claims[k].cpt_code : k \in 1..Len(clean_claims)} :
        /\ Len(CleanAmountSeq(c)) = 10
        /\ Cardinality(Range(CleanAmountSeq(c))) = 3
        /\ pandas_stats(pandas_clean_df(raw_claims_df), c).cnt = 10


\* What a run that finished its first n writes has put under the three
\* paths of an empty bucket: gold always, silver and quarantine only when
\* non-empty.
WrittenAfter(n) ==
    [gold |-> IF n >= 1 THEN <<gold_claims>> ELSE <<>>,
     silver |-> IF n >= 2 /\ dq_failure_count > 0 THEN <<silver_claims>> ELSE <<>>,
     quarantine |-> IF n >= 3 /\ outlier_count > 0 THEN <<quarantine_claims>> ELSE <<>>]

\* C22: the job runs its steps in a fixed order: gold, then silver (with a DQ
\* failure only), then quarantine (with an outlier only), then the metrics
\* push, then the commit; a run is committed only after its push succeeded,
\* and a failed push ends the run with the tiers written and no commit.
C22_FixedOrderOfSteps ==
    /\ pc \in {"idle", "read", "validate", "detect", "outputs", "write_gold"} =>
         processed_bucket = WrittenAfter(0) /\ cloudwatch = <<>> /\ committed = 0
    /\ pc = "write_silver" =>
         processed_bucket = WrittenAfter(1) /\ cloudwatch = <<>> /\ committed = 0
    /\ pc = "write_quarantine" =>
         processed_bucket = WrittenAfter(2) /\ cloudwatch = <<>> /\ committed = 0
    /\ pc \in {"metrics", "push", "failed"} =>
         processed_bucket = WrittenAfter(3) /\ cloudwatch = <<>> /\ committed = 0
    /\ pc = "commit" =>
         processed_bucket = WrittenAfter(3) /\ Len(cloudwatch) = 1 /\ committed = 0
    /\ pc = "done" =>
         processed_bucket = WrittenAfter(3) /\ Len(cloudwatch) = 1 /\ committed = 1

C22_Witness ==
    /\ pc = "failed"
    /\ processed_bucket.gold = <<gold_claims>>
    /\ processed_bucket.silver = <<silver_claims>>
    /\ processed_bucket.quarantine = <<>>
    /\ dq_failure_count > 0
    /\ raw_count > dq_failure_count


\* a is the beginning of b.
IsPrefix(a, b) == Len(a) <= Len(b) /\ SubSeq(b, 1, Len(a)) = a

\* n times the dataset df, one after the other.
Copies(n, df) == [i \in 1..n |-> df]

\* No step takes away or changes a dataset a tier already holds.
NothingRemoved ==
    \A tier \in {"gold", "silver", "quarantine"} :
        IsPrefix(processed_bucket[tier], processed_bucket'[tier])

\* While the raw bucket holds one file, every run, whether on the key of the
\* file or on the prefix, has written the records of that file once more.
EveryRunWroteItsCopy ==
    (Len(raw_bucket) = 1 /\ pc \in {"metrics", "push", "commit", "done", "failed"}) =>
        /\ processed_bucket.gold = Copies(job_runs, gold_claims)
        /\ processed_bucket.silver =
             Copies(IF dq_failure_count > 0 THEN job_runs ELSE 0, silver_claims)
        /\ processed_bucket.quarantine =
             Copies(IF outlier_count > 0 THEN job_runs ELSE 0, quarantine_claims)

\* C23: the tier outputs are append-only: no run removes or overwrites what
\* an earlier run wrote, and running the job again on the same input leaves
\* every record of that input in its tier once per run.
C23_AppendOnlyOutputs == []EveryRunWroteItsCopy /\ [][NothingRemoved]_vars

C23_Witness ==
    /\ pc = "done"
    /\ S3_INPUT_KEY = ClaimsPrefix
    /\ Len(raw_bucket) = 1
    /\ job_runs = 3
    /\ silver_claims # <<>>
    /\ processed_bucket.silver = <<silver_claims, silver_claims, silver_claims>>
    /\ processed_bucket.gold = <<gold_claims, gold_claims, gold_claims>>


\* The handler took the quarantine branch.
IsQuarantineAction == action \in {"quarantine_data", "handle_anomaly_spike"}

\* The calls quarantine_data makes on S3.
QuarantineApis == {"list_objects_v2", "copy_object", "put_object_tagging"}

\* The object of the raw bucket under the key carries the Quarantined tag.
IsTagged(key) ==
    \E i \in 1..Len(raw_objects) :
        /\ raw_objects[i].Key = key
        /\ raw_objects[i].TagSet = <<[Key |-> "Status", Value |-> "Quarantined"]>>

\* The keys and the contents of the objects of the raw bucket.
SourceObjects == [i \in 1..Len(raw_objects) |-> <<raw_objects[i].Key, raw_objects[i].ETag>>]

\* Every step leaves the objects of the raw bucket in place, as they were.
SourceKept == SourceObjects' = SourceObjects

\* What quarantine_data has done and reported so far is in order.
QuarantineInOrder ==
    /\ \A j \in 1..Len(aws_calls) :
         aws_calls[j].api = "put_object_tagging" =>
            /\ j > 1
            /\ aws_calls[j - 1] = Call("copy_object", aws_calls[j].key, "ok")
            /\ ~endswith_slash(aws_calls[j].key)
    /\ \A j \in 1..Len(aws_calls) :
         (aws_calls[j].api = "copy_object" /\ aws_calls[j].outcome = "ok") =>
            quarantine_key(aws_calls[j].key) \in logs_objects
    /\ \A j \in 1..Len(aws_calls) :
         (aws_calls[j].api = "put_object_tagging" /\ aws_calls[j].outcome = "ok") =>
            IsTagged(aws_calls[j].key)
    /\ quarantined_files =
         LET tagged == SelectSeq(aws_calls, LAMBDA c : c.api = "put_object_tagging"
                                                        /\ c.outcome = "ok")
         IN  [j \in 1..Len(tagged) |-> tagged[j].key]
    /\ S3_LOGS_BUCKET = "" =>
         /\ \A j \in 1..Len(aws_calls) : aws_calls[j].api \in {"start_job_run", "publish"}
         /\ logs_objects = {}
         /\ (IsQuarantineAction /\ remediation_result # NULL) =>
                Val(remediation_result) = Result("skipped", <<>>)
    /\ (IsQuarantineAction /\ remediation_result # NULL /\ S3_LOGS_BUCKET # "") =>
         LET res == Val(remediation_result)
             s3 == SelectSeq(aws_calls, LAMBDA c : c.api \in QuarantineApis)
         IN  /\ res.status \in {"success", "error"}
             /\ res.quarantined_count = Len(quarantined_files)
             /\ res.status = "error" =>
                    /\ s3[Len(s3)].outcome = "ClientError"
                    /\ \A j \in 1..(Len(s3) - 1) : s3[j].outcome = "ok"
             /\ res.status = "success" =>
                    /\ \A j \in 1..Len(s3) : s3[j].outcome = "ok"
                    /\ res.files = SelectSeq(Contents, LAMBDA key : ~endswith_slash(key))

\* C24: quarantine_data never deletes or rewrites a source object; it copies
\* a key, then tags it, and reports it only after both succeeded; on a
\* ClientError it stops and returns error with the count of the keys fully
\* processed, undoing nothing; without a logs bucket it calls S3 not at all
\* and returns skipped.
C24_QuarantineCopiesThenTags == []QuarantineInOrder /\ [][SourceKept]_vars

C24_Witness ==
    /\ IsQuarantineAction
    /\ remediation_result # NULL
    /\ Val(remediation_result).status = "error"
    /\ Val(remediation_result).quarantined_count = 1
    /\ Len(aws_calls) >= 5
    /\ aws_calls[4] = Call("copy_object", <<"claims", "b.csv">>, "ok")
    /\ aws_calls[5] = Call("put_object_tagging", <<"claims", "b.csv">>, "ClientError")
    /\ quarantine_key(<<"claims", "b.csv">>) \in logs_objects
    /\ IsTagged(<<"claims", "a.csv">>)
    /\ ~IsTagged(<<"claims", "b.csv">>)


\* The names the if / elif chain of the handler knows.
RecognisedActions ==
    {"quarantine_data", "handle_anomaly_spike", "restart_glue_job", "restart_etl",
     "handle_cost_spike", "cost_spike"}

\* A call raised an exception that no remediation, log or notification
\* catches.
UnexpectedException ==
    \E j \in 1..Len(aws_calls) :
        aws_calls[j].outcome = "Exception" /\ aws_calls[j].api # "start_job_run"

\* The remediation of the requested action reported success; a cost spike
\* has no remediation that could fail.
RemediationSucceeded ==
    /\ action \in RecognisedActions
    /\ \/ action \in {"handle_cost_spike", "cost_spike"}
       \/ remediation_result # NULL /\ Val(remediation_result).status = "success"

\* The status code of a returned response is the one the outcome calls for,
\* and at most one remediation was started.
ResponseMatchesOutcome ==
    /\ orch_pc = "returned" =>
        LET statusCode == Val(response).statusCode
        IN  /\ statusCode \in {200, 400, 500}
            /\ statusCode = 500 <=> UnexpectedException
            /\ statusCode = 200 <=> (~UnexpectedException /\ RemediationSucceeded)
    /\ Len(SelectSeq(aws_calls, LAMBDA c : c.api \in {"list_objects_v2", "start_job_run"})) <= 1
    /\ ~(IsQuarantineAction /\ \E j \in 1..Len(aws_calls) : aws_calls[j].api = "start_job_run")
    /\ ~IsQuarantineAction =>
         \A j \in 1..Len(aws_calls) : aws_calls[j].api \notin QuarantineApis

\* C25: for every event the handler returns a response and does not raise;
\* the status code is 500 after an unexpected exception, else 200 exactly
\* when the action is recognised and its remediation reported success, else
\* 400; at most one remediation is executed.
C25_HandlerAlwaysResponds ==
    /\ orch_pc # "raised"
    /\ ResponseMatchesOutcome


\* The calls of the remediation itself, and those of the audit log and the
\* notification.
RemediationCalls ==
    SelectSeq(aws_calls, LAMBDA c : c.api \in QuarantineApis \cup {"start_job_run"})

AuditAndNotificationCalls ==
    SelectSeq(aws_calls, LAMBDA c : c.api \in {"put_object", "publish"})

\* The flag and the status code of the response are those of the
\* remediation alone.
ResponseFollowsRemediation ==
    Val(response) = [statusCode |-> IF RemediationSucceeded THEN 200 ELSE 400,
                     success |-> RemediationSucceeded]

CreatedRecords ==
    SelectSeq(Records, LAMBDA r : startswith(r.eventName, "ObjectCreated"))

\* The calls of the handler that start a run.
StartCalls == SelectSeq(trigger_calls, LAMBDA c : c.api = "start_job_run")

\* C27: a 200 of glue_trigger means one run was started per ObjectCreated
\* record, in record order and on the record's key, at least one, and the
\* job_run_id returned is that of the last run; the handler raises only when
\* a start failed or no record was an ObjectCreated, never for a failed
\* metric; after a failed start the runs started before it stay started and
\* the records after it are not looked at.
C27_OneRunPerCreatedObject ==
    /\ trigger_pc = "returned" =>
        /\ [j \in 1..Len(started_runs) |-> started_runs[j].S3_INPUT_KEY]
             = [j \in 1..Len(CreatedRecords) |-> CreatedRecords[j].key]
        /\ Len(StartCalls) = Len(started_runs)
        /\ Len(started_runs) >= 1
        /\ Val(trigger_returned) =
             [statusCode |-> 200, job_run_id |-> started_runs[Len(started_runs)].JobRunId]
    /\ trigger_pc = "raised" =>
        /\ trigger_returned = NULL
        /\ \/ CreatedRecords = <<>> /\ trigger_calls = <<>>
           \/ /\ trigger_calls # <<>>
              /\ trigger_calls[Len(trigger_calls)].api = "start_job_run"
              /\ trigger_calls[Len(trigger_calls)].outcome # "ok"
              /\ Len(StartCalls) = Len(started_runs) + 1
              /\ \A j \in 1..Len(started_runs) :
                    /\ StartCalls[j].outcome = "ok"
                    /\ started_runs[j].S3_INPUT_KEY = CreatedRecords[j].key
              /\ StartCalls[Len(StartCalls)].key = CreatedRecords[Len(StartCalls)].key

C27_Witness ==
    /\ trigger_pc = "returned"
    /\ Len(Records) = 3
    /\ Len(started_runs) = 2
    /\ Val(trigger_returned).job_run_id = 2
    /\ started_runs[1].S3_INPUT_KEY # started_runs[2].S3_INPUT_KEY
    /\ \E j \in 1..Len(trigger_calls) :
         trigger_calls[j].api = "put_metric_data" /\ trigger_calls[j].outcome # "ok"


\* The calls of the collector on the api.
CollectorCallsOf(api) == SelectSeq(collector_calls, LAMBDA c : c.api = api)

\* check_cost_threshold was called and has ended, by returning or by an
\* exception.
CheckEnded ==
    \/ collector_pc = "return"
    \/ collector_pc = "returned" /\ threshold_exceeded # NULL
    \/ collector_pc \in {"except", "returned"} /\ CollectorCallsOf("put_events") # <<>>

\* Event and notification go out as the comparison and the order of the
\* calls prescribe, and the status check emits nothing.
AlertsFollowTheComparison ==
    /\ CollectorCallsOf("put_events") # <<>> =>
         cost_data # NULL /\ Val(cost_data).total_cost > COST_THRESHOLD_USD
    /\ (CheckEnded /\ Val(cost_data).total_cost > COST_THRESHOLD_USD) =>
         Len(CollectorCallsOf("put_events")) = 1
    /\ CollectorCallsOf("publish") # <<>> =>
         /\ alert_topic # ""
         /\ \E j \in 1..Len(collector_calls) :
              /\ collector_calls[j] = Call("put_events", <<>>, "ok")
              /\ collector_calls[j + 1].api = "publish"
              /\ j + 1 = Len(collector_calls)
    /\ collector_action = "check_cost_status" =>
         /\ \A j \in 1..Len(collector_calls) : collector_calls[j].api = "get_cost_and_usage"
         /\ threshold_exceeded = NULL
         /\ collector_pc = "returned" =>
              Val(collector_response) =
                CollectorResponse(200, IF Val(cost_data).total_cost > COST_THRESHOLD_USD
                                       THEN "high" ELSE "normal", NULL)

\* The statement as made: once check_cost_threshold has ended it has
\* returned True if the threshold was exceeded and False if not, whatever
\* became of the publishing.
C30_AlertExactlyAboveThreshold ==
    /\ AlertsFollowTheComparison
    /\ CheckEnded =>
         threshold_exceeded = Some(Val(cost_data).total_cost > COST_THRESHOLD_USD)

\* C30: the alert is triggered exactly when total_cost is strictly above
\* the threshold; check_cost_threshold returns True iff it is, also when
\* put_events or publish raised ClientError, while any other exception of
\* the two leaves it without a return value and the handler answers 500; the
\* notification follows a put_events that returned; at or below the
\* threshold nothing is emitted; check_cost_status compares the same way and
\* emits nothing.
C30_AlertAboveThresholdUnlessUnexpected ==
    /\ AlertsFollowTheComparison
    /\ CheckEnded =>
         LET last == collector_calls[Len(collector_calls)]
             cut_short == last.api \in {"put_events", "publish"} /\ last.outcome = "Exception"
         IN  IF cut_short
             THEN /\ threshold_exceeded = NULL
                  /\ collector_pc = "returned" =>
                        Val(collector_response) = CollectorResponse(500, "error", NULL)
             ELSE /\ threshold_exceeded = Some(Val(cost_data).total_cost > COST_THRESHOLD_USD)
                  /\ collector_pc = "returned" =>
                        Val(collector_response) =
                          CollectorResponse(200, "Cost collection completed",
                                            threshold_exceeded)

C30_Witness ==
    /\ collector_pc = "returned"
    /\ cost_data # NULL
    /\ Val(cost_data).total_cost = 5001
    /\ alert_topic # ""
    /\ collector_calls[Len(collector_calls)] = Call("put_events", <<>>, "ClientError")
    /\ Val(collector_response).threshold_exceeded = Some(TRUE)

====
